---- MODULE Spec2Model ----
(***************************************************************************)
(* Order-book indexer of the Web3 service                                  *)
(* (src/web3_service/src/indexer/orderbook-indexer.ts).                    *)
(*                                                                         *)
(* The chain is an append-only event log produced by the order-book        *)
(* contract; sync() scans it in chunks, folds the Make / Cancel / Match    *)
(* logs of each chunk into the in-memory IndexState and overwrites the     *)
(* JSON index file after every chunk.  Queries read the index file only.   *)
(***************************************************************************)
EXTENDS Integers, Sequences, FiniteSets, TLC

VARIABLES
  cfg,      \* IndexerConfig + INDEXER_BATCH_SIZE, fixed for a process lifetime
  events,   \* the contract's logs, in (block, logIndex) order
  head,     \* block number of the latest mined block
  file,     \* the index file at cfg.INDEX_PATH
  sync,     \* per sync() invocation: position and locals
  trace,    \* per sync() invocation: scanRange / writeIndex calls of the current pass
  committed, \* history: content of the last completed writeIndex (initially the file)
  obs,      \* what the last query read from the index file
  rpc,      \* the RPC endpoints and the indexer's current provider
  gl,       \* the getLogsSafe call of the scanRange in progress
  ap,       \* one Cancel / Match log applied to an ordersByKey map
  mo,       \* the matchOrder call in progress (trading/match-order.ts)
  rk,       \* the checkRisk call in progress (risk/risk-checker.ts)
  qr,       \* a query of the index snapshot: the snapshot, the clock, the answer
  dc,       \* decimalsCache of trading/pricing.ts and the getErc20Decimals calls in flight
  un        \* one amount conversion of trading/pricing.ts: its inputs and its result

vars == <<cfg, events, head, file, sync, trace, committed, obs, rpc, gl, ap, mo, rk, qr, dc, un>>

----------------------------------------------------------------------------
(* Bounds of the model *)

MaxHead == 3
MaxEvents == 3
MaxPerBlock == 2

(* Program constant: default scan window when INDEX_FROM_BLOCK is unset *)
PruneWindow == 50000

(* sync() invocations that can be in flight; passes run one at a time as 1 *)
Procs == {1, 2}

Keys == {"K1", "K2"}

Max(a, b) == IF a >= b THEN a ELSE b
Min(a, b) == IF a <= b THEN a ELSE b

----------------------------------------------------------------------------
(* Pure helpers of orderbook-indexer.ts *)

(* toLowerCase over the address spellings of the model: "0xAA" and "0xaa"  *)
(* are one address, "0xbb" is another                                      *)
normAddr(a) ==
  IF a \in {"0xaa", "0xAA", "0xAa"} THEN "0xaa"
  ELSE IF a \in {"0xbb", "0xBB", "0xBb"} THEN "0xbb"
  ELSE IF a \in {"0xcc", "0xCC", "0xCc"} THEN "0xcc"
  ELSE IF a \in {"0xdd", "0xDD", "0xDd"} THEN "0xdd"
  ELSE a

(* The order tuple stored by the contract under an orderKey: immutable.    *)
(* K1 and K3 are sell orders (side 0, saleKind 1), K2 and K4 buy orders    *)
(* (side 1).                                                               *)
OrderOf(k) == [side |-> IF k \in {"K1", "K3"} THEN 0 ELSE 1, saleKind |-> 1]

isSellOrder(o) == o.side = 0 /\ o.saleKind = 1

EmptyOrders == [k \in {} |-> 0]

NullState ==
  [chainId |-> -1, orderbook |-> "", lastScannedBlock |-> -1, ordersByKey |-> EmptyOrders]

AbsentFile == [kind |-> "absent", data |-> NullState]
TornFile == [kind |-> "torn", data |-> NullState]

(* readIndex: the parsed file, or null when reading or parsing fails *)
readIndex(f) == IF f.kind = "json" THEN f.data ELSE NullState

IsNull(st) == st = NullState

(* variant: the write persists the scan position without the orders *)
writeIndexNoOrders(st) == [kind |-> "json", data |-> [st EXCEPT !.ordersByKey = EmptyOrders]]

(* content of the file once writeIndex has completed *)
writeIndex(st) == [kind |-> "json", data |-> st]

----------------------------------------------------------------------------
(* Logs *)

(* a log of the order book: its event, its block, the key or keys it      *)
(* names, whether ob.iface.parseLog yields it (parses) and, for a Make,   *)
(* whether ob.orders(orderKey) answers with the order (ok)                *)
MakeLog(b, k, ok) ==
  [type |-> "make", blk |-> b, k1 |-> k, k2 |-> k, ok |-> ok, parses |-> TRUE]
CancelLog(b, k) ==
  [type |-> "cancel", blk |-> b, k1 |-> k, k2 |-> k, ok |-> TRUE, parses |-> TRUE]
MatchLog(b, mk, tk) ==
  [type |-> "match", blk |-> b, k1 |-> mk, k2 |-> tk, ok |-> TRUE, parses |-> TRUE]

(* the same log with data parseLog throws on or has no event for *)
Unparsable(log) == [log EXCEPT !.parses = FALSE]

(* what the contract can emit into block b: the sell order K1 is made,    *)
(* cancelled, or matched as the maker or as the taker leg; the buy order   *)
(* K2 is made                                                              *)
LogsAt(b) ==
  {MakeLog(b, "K1", TRUE), MakeLog(b, "K2", TRUE), CancelLog(b, "K1"),
   MatchLog(b, "K1", "K2"), MatchLog(b, "K2", "K1")}

SeqsUpTo(S, n) == UNION {[1..m -> S] : m \in 0..n}

(* provider.getLogs for one topic and an inclusive block range *)
getLogs(topic, fromBlock, toBlock) ==
  SelectSeq(events, LAMBDA e : e.type = topic /\ e.blk >= fromBlock /\ e.blk <= toBlock)

----------------------------------------------------------------------------
(* scanRange: the three loops over makeLogs, cancelLogs, matchLogs *)

Put(orders, k, entry) ==
  [x \in (DOMAIN orders) \cup {k} |-> IF x = k THEN entry ELSE orders[x]]

(* variant: the upsert always writes status open *)
applyMakeAlwaysOpen(orders, log) ==
  LET k == log.k1
      existing == k \in DOMAIN orders
  IN IF ~log.parses THEN orders
     ELSE IF ~log.ok THEN orders
     ELSE IF ~isSellOrder(OrderOf(k)) THEN orders
     ELSE Put(orders, k,
            [status |-> "open",
             firstSeenBlock |-> IF existing THEN orders[k].firstSeenBlock ELSE log.blk,
             lastUpdateBlock |-> log.blk])

(* variant: every Make stamps firstSeenBlock anew *)
applyMakeRestamp(orders, log) ==
  LET k == log.k1
      existing == k \in DOMAIN orders
  IN IF ~log.parses THEN orders
     ELSE IF ~log.ok THEN orders
     ELSE IF ~isSellOrder(OrderOf(k)) THEN orders
     ELSE Put(orders, k,
            [status |-> IF existing /\ orders[k].status = "filled" THEN "filled" ELSE "open",
             firstSeenBlock |-> log.blk,
             lastUpdateBlock |-> log.blk])

(* lines 181-226 *)
applyMake(orders, log) ==
  LET k == log.k1
      existing == k \in DOMAIN orders
  IN IF ~log.parses THEN orders
     ELSE IF ~log.ok THEN orders
     ELSE IF ~isSellOrder(OrderOf(k)) THEN orders
     ELSE Put(orders, k,
            [status |-> IF existing /\ orders[k].status = "filled" THEN "filled" ELSE "open",
             firstSeenBlock |-> IF existing THEN orders[k].firstSeenBlock ELSE log.blk,
             lastUpdateBlock |-> log.blk])

(* variant: a Cancel log of an unknown key creates a cancelled entry *)
applyCancelUpsert(orders, log) ==
  IF ~log.parses THEN orders ELSE
  Put(orders, log.k1,
      [status |-> "cancelled",
       firstSeenBlock |-> IF log.k1 \in DOMAIN orders THEN orders[log.k1].firstSeenBlock
                          ELSE log.blk,
       lastUpdateBlock |-> log.blk])

(* variant: the key is read off a Cancel log whether or not it parses *)
applyCancelUnparsed(orders, log) ==
  LET k == log.k1
  IN IF k \notin DOMAIN orders THEN orders
     ELSE [orders EXCEPT ![k].status = "cancelled", ![k].lastUpdateBlock = log.blk]

(* lines 228-243 *)
applyCancel(orders, log) ==
  LET k == log.k1
  IN IF ~log.parses \/ k \notin DOMAIN orders THEN orders
     ELSE [orders EXCEPT ![k].status = "cancelled", ![k].lastUpdateBlock = log.blk]

(* variant: the maker leg is taken for the sell leg whatever its side *)
applyMatchMakerOnly(orders, log) ==
  LET sellKey == log.k1
  IN IF ~log.parses \/ sellKey \notin DOMAIN orders THEN orders
     ELSE [orders EXCEPT ![sellKey].status = "filled", ![sellKey].lastUpdateBlock = log.blk]

applyMatch(orders, log) ==
  LET makeSide == OrderOf(log.k1).side
      takeSide == OrderOf(log.k2).side
      sellKey == IF makeSide = 0 THEN log.k1 ELSE IF takeSide = 0 THEN log.k2 ELSE "none"
  IN IF ~log.parses \/ sellKey = "none" \/ sellKey \notin DOMAIN orders THEN orders
     ELSE [orders EXCEPT ![sellKey].status = "filled", ![sellKey].lastUpdateBlock = log.blk]

RECURSIVE processMakeLogs(_, _)
processMakeLogs(orders, logs) ==
  IF logs = << >> THEN orders
  ELSE processMakeLogs(applyMake(orders, Head(logs)), Tail(logs))

RECURSIVE processCancelLogs(_, _)
processCancelLogs(orders, logs) ==
  IF logs = << >> THEN orders
  ELSE processCancelLogs(applyCancel(orders, Head(logs)), Tail(logs))

RECURSIVE processMatchLogs(_, _)
processMatchLogs(orders, logs) ==
  IF logs = << >> THEN orders
  ELSE processMatchLogs(applyMatch(orders, Head(logs)), Tail(logs))

(* variant: the cancel loop runs before the make loop *)
scanRangeCancelFirst(orders, fromBlock, toBlock) ==
  LET afterCancel == processCancelLogs(orders, getLogs("cancel", fromBlock, toBlock))
      afterMake == processMakeLogs(afterCancel, getLogs("make", fromBlock, toBlock))
  IN processMatchLogs(afterMake, getLogs("match", fromBlock, toBlock))

scanRange(orders, fromBlock, toBlock) ==
  LET afterMake == processMakeLogs(orders, getLogs("make", fromBlock, toBlock))
      afterCancel == processCancelLogs(afterMake, getLogs("cancel", fromBlock, toBlock))
  IN processMatchLogs(afterCancel, getLogs("match", fromBlock, toBlock))

----------------------------------------------------------------------------
(* sync() *)

Idle(outcome, h) ==
  [pc |-> "idle", outcome |-> outcome, head |-> h, from |-> 0, state |-> NullState]

(* the persisted index belongs to the configured deployment (lines 130-132) *)
sameDeployment(existing) ==
  /\ ~IsNull(existing)
  /\ existing.chainId = cfg.CHAIN_ID
  /\ normAddr(existing.orderbook) = normAddr(cfg.ORDERBOOK_ADDRESS)

(* variant: the persisted index is never reused *)
loadStateAlwaysFresh(existing) ==
  [chainId |-> cfg.CHAIN_ID,
   orderbook |-> cfg.ORDERBOOK_ADDRESS,
   lastScannedBlock |-> Max(0, cfg.INDEXER_FROM_BLOCK - 1),
   ordersByKey |-> EmptyOrders]

(* the state sync() starts from: the persisted one, or a fresh one *)
loadState(existing) ==
  IF sameDeployment(existing)
  THEN existing
  ELSE [chainId |-> cfg.CHAIN_ID,
        orderbook |-> cfg.ORDERBOOK_ADDRESS,
        lastScannedBlock |-> Max(0, cfg.INDEXER_FROM_BLOCK - 1),
        ordersByKey |-> EmptyOrders]

(* variant: the scan resumes at lastScannedBlock instead of the block after it *)
startBlockRescan(st, h) ==
  LET fromBlock == IF cfg.INDEXER_FROM_BLOCK > 0 THEN cfg.INDEXER_FROM_BLOCK
                   ELSE Max(1, h - PruneWindow)
  IN Max(fromBlock, st.lastScannedBlock)

(* lines 143-147: the first block of the pass *)
startBlock(st, h) ==
  LET fromBlock == IF cfg.INDEXER_FROM_BLOCK > 0 THEN cfg.INDEXER_FROM_BLOCK
                   ELSE Max(1, h - PruneWindow)
  IN Max(fromBlock, st.lastScannedBlock + 1)

(* variant: the chunk ends one block too far *)
chunkEndOverlap(h, from) == Min(h, from + cfg.step)

(* line 153: the last block of the chunk that starts at from *)
chunkEnd(h, from) == Min(h, from + cfg.step - 1)

(* the calls of a pass are recorded up to the longest pass a chain of     *)
(* MaxHead blocks has when every chunk advances (start, then scanRange    *)
(* and writeIndex per block); a pass that goes on is recorded no further  *)
TraceCap == 2 * MaxHead + 1

Record(t, call) == IF Len(t) < TraceCap THEN Append(t, call) ELSE t

(* sync(), lines 125-149: load the index, read the head, return if nothing new *)
SyncStart(p) ==
  /\ sync[p].pc = "idle"
  /\ LET st == loadState(readIndex(file))
         start == startBlock(st, head)
     IN IF start > head
        THEN /\ sync' = [sync EXCEPT ![p] = Idle("ok", head)]
             /\ trace' = [trace EXCEPT ![p] = << >>]
        ELSE /\ sync' = [sync EXCEPT ![p] =
                          [pc |-> "scan", outcome |-> "none", head |-> head,
                           from |-> start, state |-> st]]
             /\ trace' = [trace EXCEPT ![p] =
                           <<[op |-> "start", from |-> start, to |-> head,
                              lsb |-> st.lastScannedBlock]>>]
  /\ UNCHANGED <<cfg, events, head, file, committed, obs, rpc, gl, ap, mo, rk, qr, dc, un>>

(* lines 153-155: scanRange on the chunk, then state.lastScannedBlock = to *)
ScanChunk(p) ==
  /\ sync[p].pc = "scan"
  /\ LET from == sync[p].from
         to == chunkEnd(sync[p].head, from)
         st == sync[p].state
     IN /\ sync' = [sync EXCEPT ![p].pc = "write",
                                ![p].state = [st EXCEPT !.ordersByKey = scanRange(st.ordersByKey, from, to),
                                                        !.lastScannedBlock = to]]
        /\ trace' = [trace EXCEPT ![p] =
                      Record(@, [op |-> "scan", from |-> from, to |-> to,
                                 lsb |-> st.lastScannedBlock])]
  /\ UNCHANGED <<cfg, events, head, file, committed, obs, rpc, gl, ap, mo, rk, qr, dc, un>>

(* scanRange throws (no endpoint, or getLogsSafe gave up): sync() rejects *)
ScanThrows(p) ==
  /\ sync[p].pc = "scan"
  /\ sync' = [sync EXCEPT ![p] = Idle("threw", sync[p].head)]
  /\ UNCHANGED <<cfg, events, head, file, trace, committed, obs, rpc, gl, ap, mo, rk, qr, dc, un>>

(* writeIndex, line 67: fs.writeFile opens the file with truncation ... *)
WriteOpen(p) ==
  /\ sync[p].pc = "write"
  /\ file' = TornFile
  /\ sync' = [sync EXCEPT ![p].pc = "writing"]
  /\ UNCHANGED <<cfg, events, head, trace, committed, obs, rpc, gl, ap, mo, rk, qr, dc, un>>

(* ... and then writes the serialized state; the loop goes on or sync() returns *)
WriteDone(p) ==
  /\ sync[p].pc = "writing"
  /\ file' = writeIndex(sync[p].state)
  /\ committed' = file'
  /\ trace' = [trace EXCEPT ![p] =
                 Record(@, [op |-> "write", from |-> sync[p].from,
                            to |-> sync[p].state.lastScannedBlock,
                            lsb |-> sync[p].state.lastScannedBlock])]
  /\ LET next == sync[p].from + cfg.step
     IN IF next <= sync[p].head
        THEN sync' = [sync EXCEPT ![p].pc = "scan", ![p].from = next]
        ELSE sync' = [sync EXCEPT ![p] = Idle("ok", sync[p].head)]
  /\ UNCHANGED <<cfg, events, head, obs, rpc, gl, ap, mo, rk, qr, dc, un>>

(* the process dies during a pass and is restarted *)
Crash(p) ==
  /\ sync[p].pc # "idle"
  /\ sync' = [sync EXCEPT ![p] = Idle("crashed", sync[p].head)]
  /\ UNCHANGED <<cfg, events, head, file, trace, committed, obs, rpc, gl, ap, mo, rk, qr, dc, un>>

----------------------------------------------------------------------------
(* The chain *)

(* a block is mined, carrying the logs the contract emitted in it *)
MineBlock ==
  /\ head < MaxHead
  /\ \E logs \in SeqsUpTo(LogsAt(head + 1), Min(MaxPerBlock, MaxEvents - Len(events))) :
       events' = events \o logs
  /\ head' = head + 1
  /\ UNCHANGED <<cfg, file, sync, trace, committed, obs, rpc, gl, ap, mo, rk, qr, dc, un>>

(* a block that may also hold logs scanRange has to skip: a Make, Cancel  *)
(* or Match log that does not parse, a Make whose orders() lookup fails   *)
FaultyLogsAt(b) ==
  {MakeLog(b, "K1", TRUE), CancelLog(b, "K1"),
   MakeLog(b, "K1", FALSE), Unparsable(MakeLog(b, "K1", TRUE)),
   Unparsable(CancelLog(b, "K1")), Unparsable(MatchLog(b, "K1", "K2"))}

MineFaulty ==
  /\ head < MaxHead
  /\ \E logs \in SeqsUpTo(FaultyLogsAt(head + 1), Min(MaxPerBlock, MaxEvents - Len(events))) :
       events' = events \o logs
  /\ head' = head + 1
  /\ UNCHANGED <<cfg, file, sync, trace, committed, obs, rpc, gl, ap, mo, rk, qr, dc, un>>

----------------------------------------------------------------------------
(* Queries: every query starts with readIndex *)

NoObs == [seen |-> FALSE, state |-> NullState]

(* getOrderByKey / getOrdersByKeys / getActiveSellOrders, lines 310, 354, 376 *)
Query ==
  /\ obs' = [seen |-> TRUE, state |-> readIndex(file)]
  /\ UNCHANGED <<cfg, events, head, file, sync, trace, committed, rpc, gl, ap, mo, rk, qr, dc, un>>

----------------------------------------------------------------------------
(* RPC endpoints and ensureProvider *)

(* cfg.RPC_ENDPOINTS, in the configured order *)
urls == <<"rpc1", "rpc2">>

Endpoints == {urls[i] : i \in DOMAIN urls}

(* some configured endpoint answers getBlockNumber *)
AnyUp(up) == \E u \in Endpoints : up[u]

(* the first endpoint of the list that answers getBlockNumber *)
FirstUp(up) ==
  urls[CHOOSE i \in DOMAIN urls : up[urls[i]] /\ \A j \in 1..(i - 1) : ~up[urls[j]]]

(* variant: the list is probed from its head even while the current        *)
(* provider answers                                                        *)
ensureProviderFromListHead(r) ==
  IF AnyUp(r.up) THEN [ok |-> TRUE, cur |-> FirstUp(r.up)]
  ELSE [ok |-> FALSE, cur |-> r.cur]

(* ensureProvider: the current provider is probed first and kept if it     *)
(* answers; otherwise the list is probed in order; ok = FALSE is the throw *)
(* of 'No healthy RPC endpoint'.  The probes of one call see one state of  *)
(* the endpoints.                                                          *)
ensureProvider(r) ==
  IF r.up[r.cur] THEN [ok |-> TRUE, cur |-> r.cur]
  ELSE IF AnyUp(r.up) THEN [ok |-> TRUE, cur |-> FirstUp(r.up)]
  ELSE [ok |-> FALSE, cur |-> r.cur]

(* pickProvider of match-order.ts: a new provider per call, the list       *)
(* probed in order                                                         *)
pickProvider(up) ==
  IF AnyUp(up) THEN [ok |-> TRUE, cur |-> FirstUp(up)]
  ELSE [ok |-> FALSE, cur |-> "none"]

(* the endpoints as the indexer's constructor finds them: provider =       *)
(* urls[0]; maxRange is the longest block range eth_getLogs accepts, flaky *)
(* an endpoint whose eth_getLogs may fail on any call; probed is history:  *)
(* no endpoint changed since the last ensureProvider call                  *)
Rpc(flaky, maxRange) ==
  [up |-> [u \in Endpoints |-> TRUE], cur |-> urls[1],
   flaky |-> flaky, maxRange |-> maxRange, probed |-> FALSE]

(* eth_getLogs rejects the range as too large *)
rejects(r, fromBlock, toBlock) == toBlock - fromBlock + 1 > r.maxRange

(* an endpoint goes down or comes back *)
EndpointChange ==
  /\ \E u \in Endpoints : rpc' = [rpc EXCEPT !.up[u] = ~@, !.probed = FALSE]
  /\ UNCHANGED <<cfg, events, head, file, sync, trace, committed, obs, gl, ap, mo, rk, qr, dc, un>>

----------------------------------------------------------------------------
(* getLogsSafe: an explicit stack of (from, to, attempts) *)

Topics == {"make", "cancel", "match"}

(* retries is history: how often this very range has been fetched again *)
Item(f, t, attempts, retries) ==
  [from |-> f, to |-> t, attempts |-> attempts, retries |-> retries]

NoItem == Item(0, 0, 0, 0)

NoCall ==
  [pc |-> "idle", topic |-> "none", from |-> 0, to |-> 0,
   stack |-> << >>, out |-> << >>, failed |-> NoItem, err |-> "none"]

Top(stack) == stack[Len(stack)]
Pop(stack) == SubSeq(stack, 1, Len(stack) - 1)

(* variant: the lower half is pushed first, so the upper half is fetched first *)
bisectLowerFirst(it) ==
  LET mid == (it.from + it.to) \div 2
  IN <<Item(it.from, mid, it.attempts + 1, 0), Item(mid + 1, it.to, it.attempts + 1, 0)>>

(* lines 284-288: the two halves pushed on the stack, each with attempts + 1 *)
bisect(it) ==
  LET mid == (it.from + it.to) \div 2
  IN <<Item(mid + 1, it.to, it.attempts + 1, 0), Item(it.from, mid, it.attempts + 1, 0)>>

(* variant: a failing single-block range is never fetched again *)
mayRetryNever(it) == FALSE

(* line 290 *)
mayRetry(it) == it.attempts < 2

(* scanRange, lines 161 and 177-179: ensureProvider, then a getLogsSafe    *)
(* call for one of the three topics on the chunk                           *)
ScanRangeEnter ==
  /\ gl.pc = "idle"
  /\ LET ep == ensureProvider(rpc)
     IN /\ rpc' = [rpc EXCEPT !.cur = ep.cur, !.probed = TRUE]
        /\ IF ~ep.ok
           THEN gl' = [NoCall EXCEPT !.pc = "threw", !.err = "No healthy RPC endpoint"]
           ELSE \E topic \in Topics, f \in 1..head, t \in 1..head :
                  /\ f <= t
                  /\ gl' = [NoCall EXCEPT !.pc = "run", !.topic = topic,
                                          !.from = f, !.to = t,
                                          !.stack = <<Item(f, t, 0, 0)>>]
  /\ UNCHANGED <<cfg, events, head, file, sync, trace, committed, obs, ap, mo, rk, qr, dc, un>>

(* the try block of one loop iteration fails: ensureProvider throws, or    *)
(* provider.getLogs rejects the range, or fails for any other reason       *)
fetchFails(it) ==
  \/ ~ensureProvider(rpc).ok
  \/ rejects(rpc, it.from, it.to)
  \/ rpc.flaky

(* lines 277-282: the range on top of the stack is fetched *)
FetchOk ==
  /\ gl.pc = "run"
  /\ LET it == Top(gl.stack)
         ep == ensureProvider(rpc)
     IN /\ ep.ok
        /\ ~rejects(rpc, it.from, it.to)
        /\ rpc' = [rpc EXCEPT !.cur = ep.cur, !.probed = TRUE]
        /\ gl' = [gl EXCEPT !.out = @ \o getLogs(gl.topic, it.from, it.to),
                            !.stack = Pop(@),
                            !.pc = IF Len(gl.stack) = 1 THEN "done" ELSE "run"]
  /\ UNCHANGED <<cfg, events, head, file, sync, trace, committed, obs, ap, mo, rk, qr, dc, un>>

(* lines 283-289: a failing range of several blocks is split *)
FetchBisect ==
  /\ gl.pc = "run"
  /\ LET it == Top(gl.stack)
         ep == ensureProvider(rpc)
     IN /\ fetchFails(it)
        /\ it.from < it.to
        /\ rpc' = [rpc EXCEPT !.cur = ep.cur, !.probed = TRUE]
        /\ gl' = [gl EXCEPT !.stack = Pop(@) \o bisect(it)]
  /\ UNCHANGED <<cfg, events, head, file, sync, trace, committed, obs, ap, mo, rk, qr, dc, un>>

(* lines 290-294: a failing single-block range is pushed again after the   *)
(* backoff                                                                 *)
FetchRetry ==
  /\ gl.pc = "run"
  /\ LET it == Top(gl.stack)
         ep == ensureProvider(rpc)
     IN /\ fetchFails(it)
        /\ it.from = it.to
        /\ mayRetry(it)
        /\ rpc' = [rpc EXCEPT !.cur = ep.cur, !.probed = TRUE]
        /\ gl' = [gl EXCEPT !.stack =
                    Pop(@) \o <<Item(it.from, it.to, it.attempts + 1, it.retries + 1)>>]
  /\ UNCHANGED <<cfg, events, head, file, sync, trace, committed, obs, ap, mo, rk, qr, dc, un>>

(* line 295: the error leaves getLogsSafe; scanRange (177-179) and sync    *)
(* (154) have no handler, so sync() rejects with it                        *)
FetchThrow ==
  /\ gl.pc = "run"
  /\ LET it == Top(gl.stack)
         ep == ensureProvider(rpc)
     IN /\ fetchFails(it)
        /\ it.from = it.to
        /\ ~mayRetry(it)
        /\ rpc' = [rpc EXCEPT !.cur = ep.cur, !.probed = TRUE]
        /\ gl' = [gl EXCEPT !.pc = "threw", !.failed = it,
                            !.err = IF ep.ok THEN "getLogs failed"
                                    ELSE "No healthy RPC endpoint"]
  /\ UNCHANGED <<cfg, events, head, file, sync, trace, committed, obs, ap, mo, rk, qr, dc, un>>

(* the call is over; the indexer and its provider live on for the next one *)
CallEnds ==
  /\ gl.pc \in {"done", "threw"}
  /\ gl' = NoCall
  /\ UNCHANGED <<cfg, events, head, file, sync, trace, committed, obs, rpc, ap, mo, rk, qr, dc, un>>

Fetch == FetchOk \/ FetchBisect \/ FetchRetry \/ FetchThrow

----------------------------------------------------------------------------
(* One Cancel or Match log applied to an ordersByKey map *)

AllKeys == {"K1", "K2", "K3", "K4"}

Statuses == {"open", "cancelled", "filled"}

(* the maps over the sell orders K1 and K3, every entry last updated at    *)
(* block 1                                                                 *)
OrderMaps ==
  UNION {[D -> {[status |-> st, firstSeenBlock |-> 1, lastUpdateBlock |-> 1] : st \in Statuses}] :
           D \in SUBSET {"K1", "K3"}}

(* the Cancel and Match logs of block 2 *)
ApplyLogs ==
  {CancelLog(2, k) : k \in AllKeys}
    \cup {MatchLog(2, pr[1], pr[2]) : pr \in {q \in AllKeys \X AllKeys : q[1] # q[2]}}

NoApply ==
  [done |-> FALSE, orders |-> EmptyOrders, log |-> CancelLog(0, "K1"), out |-> EmptyOrders]

(* the body of the cancel loop, lines 228-243, on one log *)
ApplyCancel ==
  /\ ~ap.done
  /\ ap.log.type = "cancel"
  /\ ap' = [ap EXCEPT !.out = applyCancel(ap.orders, ap.log), !.done = TRUE]
  /\ UNCHANGED <<cfg, events, head, file, sync, trace, committed, obs, rpc, gl, mo, rk, qr, dc, un>>

(* the body of the match loop, lines 245-270, on one log *)
ApplyMatch ==
  /\ ~ap.done
  /\ ap.log.type = "match"
  /\ ap' = [ap EXCEPT !.out = applyMatch(ap.orders, ap.log), !.done = TRUE]
  /\ UNCHANGED <<cfg, events, head, file, sync, trace, committed, obs, rpc, gl, mo, rk, qr, dc, un>>

----------------------------------------------------------------------------
(* matchOrder (trading/match-order.ts) *)

MaxPrice == 2

(* cfg.USDOL_ADDRESS *)
USDOL_ADDRESS == "0xcc"

(* sell.currency: the quote token in two spellings, and another token *)
Currencies == {"0xcc", "0xCC", "0xdd"}

(* variant: the address is compared as it is spelled *)
getAddressVerbatim(a) == a

(* ethers getAddress: the checksummed spelling of an address *)
getAddress(a) ==
  IF a \in {"0xcc", "0xCC", "0xCc"} THEN "0xCc"
  ELSE IF a \in {"0xdd", "0xDD", "0xDd"} THEN "0xDd"
  ELSE IF a \in {"0xaa", "0xAA", "0xAa"} THEN "0xAa"
  ELSE IF a \in {"0xbb", "0xBB", "0xBb"} THEN "0xBb"
  ELSE IF a \in {"0xee", "0xEE", "0xEe"} THEN "0xEe"
  ELSE a

(* variant: the approval is always for the required amount *)
approveAmountExact(required, approveMax) == [max |-> FALSE, value |-> required]

(* line 45: MaxUint256 or the required amount *)
approveAmount(required, approveMax) ==
  IF approveMax THEN [max |-> TRUE, value |-> 0] ELSE [max |-> FALSE, value |-> required]

(* variant: the dry run does not stop ensureAllowance *)
submitsApprovalInDryRun(current, required, dryRun) == ~(current >= required)

(* lines 44 and 46: ensureAllowance goes on to approve *)
submitsApproval(current, required, dryRun) == ~(current >= required) /\ ~dryRun

(* what tx.wait() of the match transaction can yield: a receipt with       *)
(* status 1, a receipt with another status, no receipt, or a rejection     *)
WaitResults == {"status1", "status0", "none", "rejects"}

(* variant: the receipt's status is not looked at *)
receiptOutcomeUnchecked(receipt) == [returns |-> TRUE, err |-> "none"]

(* lines 87-91 *)
receiptOutcome(receipt) ==
  IF receipt = "none" THEN [returns |-> TRUE, err |-> "none"]
  ELSE IF receipt # "status1" THEN [returns |-> FALSE, err |-> "execution failed"]
  ELSE [returns |-> TRUE, err |-> "none"]

(* the random salt is SaltBits bits wide (8 bytes in the source) *)
SaltBits == 3

(* ttlSec of buildBuyOrderFromSell, line 51 *)
DefaultTtlSec == 300

(* wallet.address of the executing wallet, checksummed *)
Buyer == "0xEe"

(* crypto.randomBytes: every bit pattern of the width *)
RandomBits == [1..SaltBits -> {0, 1}]

RECURSIVE bitsValue(_, _)
(* BigInt(`0x${hex}`), line 53: the number the digits spell, most        *)
(* significant first                                                      *)
bitsValue(bits, n) == IF n = 0 THEN 0 ELSE 2 * bitsValue(bits, n - 1) + bits[n]

RECURSIVE pow2(_)
pow2(n) == IF n = 0 THEN 1 ELSE 2 * pow2(n - 1)

(* variant: the drawn salt is used as it is *)
saltOfRaw(drawn) == drawn

(* line 66: salt === 0n ? 1n : salt *)
saltOf(drawn) == IF drawn = 0 THEN 1 ELSE drawn

NoNft == [tokenId |-> 0, collectionAddr |-> "", amount |-> 0]

NoBuyOrder ==
  [side |-> 0, saleKind |-> 0, maker |-> "", nft |-> NoNft, price |-> 0, currency |-> "",
   expiry |-> 0, salt |-> 0]

(* variant: the buy order is for the sell order's price less one *)
buildBuyOrderFromSellUnderbid(sell, buyer, ttlSec, now, bits) ==
  [side |-> 1, saleKind |-> 1, maker |-> getAddress(buyer),
   nft |-> [tokenId |-> sell.nft.tokenId,
            collectionAddr |-> getAddress(sell.nft.collectionAddr),
            amount |-> 1],
   price |-> sell.price - 1, currency |-> getAddress(sell.currency),
   expiry |-> now + ttlSec,
   salt |-> saltOf(bitsValue(bits, SaltBits))]

(* lines 51-68 *)
buildBuyOrderFromSell(sell, buyer, ttlSec, now, bits) ==
  [side |-> 1, saleKind |-> 1, maker |-> getAddress(buyer),
   nft |-> [tokenId |-> sell.nft.tokenId,
            collectionAddr |-> getAddress(sell.nft.collectionAddr),
            amount |-> 1],
   price |-> sell.price, currency |-> getAddress(sell.currency),
   expiry |-> now + ttlSec,
   salt |-> saltOf(bitsValue(bits, SaltBits))]

(* a matchOrder call: its inputs (opts, sell.price, sell.currency, the     *)
(* wallet's allowance to the order book, sell.nft, the clock) and its      *)
(* position; txs are the transactions it has submitted, buy the buy order  *)
(* it built; read, at, built and drawn (the random number) are history     *)
MatchCall(pc, dryRun, approveMax, price, currency, allowance) ==
  [pc |-> pc, dryRun |-> dryRun, approveMax |-> approveMax, price |-> price,
   currency |-> currency, allowance |-> allowance,
   read |-> FALSE, txs |-> << >>, confirmed |-> FALSE, receipt |-> "none",
   result |-> "none", err |-> "none", at |-> "none",
   nft |-> NoNft, now |-> 0, built |-> FALSE, drawn |-> 0, buy |-> NoBuyOrder]

NoMatch == MatchCall("none", FALSE, FALSE, 0, "", 0)

Throws(m, err) == [m EXCEPT !.pc = "threw", !.err = err, !.at = m.pc]

(* lines 71-74 *)
PickProvider ==
  /\ mo.pc = "start"
  /\ mo' = IF pickProvider(rpc.up).ok THEN [mo EXCEPT !.pc = "currency"]
           ELSE Throws(mo, "No healthy RPC endpoint")
  /\ UNCHANGED <<cfg, events, head, file, sync, trace, committed, obs, rpc, gl, ap, rk, qr, dc, un>>

(* lines 76-78 *)
CheckCurrency ==
  /\ mo.pc = "currency"
  /\ mo' = IF getAddress(mo.currency) # getAddress(USDOL_ADDRESS)
           THEN Throws(mo, "Sell order currency is not USDOL")
           ELSE [mo EXCEPT !.pc = "allowance"]
  /\ UNCHANGED <<cfg, events, head, file, sync, trace, committed, obs, rpc, gl, ap, rk, qr, dc, un>>

(* ensureAllowance, lines 41-46: the allowance is read (the call may       *)
(* reject) and compared with sell.price                                    *)
ReadAllowance ==
  /\ mo.pc = "allowance"
  /\ \/ mo' = Throws(mo, "provider error")
     \/ mo' = [mo EXCEPT !.read = TRUE,
                         !.pc = IF submitsApproval(mo.allowance, mo.price, mo.dryRun)
                                THEN "approve" ELSE "build"]
  /\ UNCHANGED <<cfg, events, head, file, sync, trace, committed, obs, rpc, gl, ap, rk, qr, dc, un>>

(* line 47: usdol.approve is submitted, or the submission rejects *)
SubmitApprove ==
  /\ mo.pc = "approve"
  /\ \/ mo' = Throws(mo, "provider error")
     \/ mo' = [mo EXCEPT !.txs = Append(@, [kind |-> "approve",
                                            amount |-> approveAmount(mo.price, mo.approveMax)]),
                         !.pc = "approveWait"]
  /\ UNCHANGED <<cfg, events, head, file, sync, trace, committed, obs, rpc, gl, ap, rk, qr, dc, un>>

(* line 48: await tx.wait() resolves once the approval is confirmed, or    *)
(* rejects                                                                 *)
ApproveWait ==
  /\ mo.pc = "approveWait"
  /\ \/ mo' = Throws(mo, "provider error")
     \/ mo' = [mo EXCEPT !.confirmed = TRUE, !.pc = "build"]
  /\ UNCHANGED <<cfg, events, head, file, sync, trace, committed, obs, rpc, gl, ap, rk, qr, dc, un>>

(* lines 82-84: the buy order is built; a dry run returns null *)
BuildBuyOrder ==
  /\ mo.pc = "build"
  /\ \/ /\ mo.dryRun
        /\ mo' = [mo EXCEPT !.pc = "returned", !.result = "null"]
     \/ /\ ~mo.dryRun
        /\ \E bits \in RandomBits :
             mo' = [mo EXCEPT !.pc = "match", !.built = TRUE,
                              !.drawn = bitsValue(bits, SaltBits),
                              !.buy = buildBuyOrderFromSell(
                                        [nft |-> mo.nft, price |-> mo.price,
                                         currency |-> mo.currency],
                                        Buyer, DefaultTtlSec, mo.now, bits)]
  /\ UNCHANGED <<cfg, events, head, file, sync, trace, committed, obs, rpc, gl, ap, rk, qr, dc, un>>

(* line 85: ob.matchOrder is submitted, or the submission rejects *)
SubmitMatch ==
  /\ mo.pc = "match"
  /\ \/ mo' = Throws(mo, "provider error")
     \/ mo' = [mo EXCEPT !.txs = Append(@, [kind |-> "match",
                                            amount |-> [max |-> FALSE, value |-> mo.price]]),
                         !.pc = "matchWait"]
  /\ UNCHANGED <<cfg, events, head, file, sync, trace, committed, obs, rpc, gl, ap, rk, qr, dc, un>>

(* lines 86-91: the receipt is awaited and looked at *)
MatchWait ==
  /\ mo.pc = "matchWait"
  /\ \E r \in WaitResults :
       mo' = IF r = "rejects" THEN Throws(mo, "provider error")
             ELSE LET o == receiptOutcome(r)
                  IN IF o.returns
                     THEN [mo EXCEPT !.pc = "returned", !.receipt = r, !.result = "hash"]
                     ELSE [Throws(mo, o.err) EXCEPT !.receipt = r]
  /\ UNCHANGED <<cfg, events, head, file, sync, trace, committed, obs, rpc, gl, ap, rk, qr, dc, un>>

----------------------------------------------------------------------------
(* Decimals resolver (trading/pricing.ts) *)

MaxCalls == 3

(* String.prototype.toLowerCase on the spellings of an address *)
toLowerCase(a) ==
  IF a \in {"0xcc", "0xCC", "0xCc"} THEN "0xcc"
  ELSE IF a \in {"0xdd", "0xDD", "0xDd"} THEN "0xdd"
  ELSE IF a \in {"0xaa", "0xAA", "0xAa"} THEN "0xaa"
  ELSE IF a \in {"0xbb", "0xBB", "0xBb"} THEN "0xbb"
  ELSE IF a \in {"0xee", "0xEE", "0xEe"} THEN "0xee"
  ELSE a

(* the keys of decimalsCache for the token addresses of the model *)
TokenKeys == {toLowerCase(t) : t \in Currencies}

(* what decimals() of a token answers: the ABI decodes a uint8 *)
DecimalsValues == {0, 1}

(* line 4, and the maps a process can have built up since *)
EmptyCache == [k \in {} |-> 0]

(* a getErc20Decimals call: idle, awaiting decimals(), returned or thrown *)
NoDecimalsCall == [pc |-> "idle", token |-> "", result |-> 0, hit |-> FALSE]

(* decimalsCache, the calls in flight, the tokens' decimals on chain, and, *)
(* as history, the decimals() calls sent per key and the calls begun       *)
Decimals(cache, onchain) ==
  [cache |-> cache, calls |-> [p \in Procs |-> NoDecimalsCall], onchain |-> onchain,
   remote |-> [k \in TokenKeys |-> 0], begun |-> 0]

NoDecimals == Decimals(EmptyCache, [k \in TokenKeys |-> 0])

(* lines 8-9: decimalsCache.get(key), cached != null *)
cacheGet(cache, key) ==
  IF key \in DOMAIN cache THEN [hit |-> TRUE, value |-> cache[key]]
  ELSE [hit |-> FALSE, value |-> 0]

(* line 15: decimalsCache.set(key, d) *)
cacheSet(cache, key, d) == [k \in DOMAIN cache \cup {key} |-> IF k = key THEN d ELSE cache[k]]

(* line 12 *)
validDecimals(d) == ~(d < 0 \/ d > 255)

(* lines 7-11 up to the await: a hit returns the cached value, a miss     *)
(* sends decimals() to the token                                          *)
enterDecimals(d, p, token) ==
  LET key == toLowerCase(token)
      c == cacheGet(d.cache, key)
  IN IF c.hit
     THEN [d EXCEPT !.calls[p] = [pc |-> "returned", token |-> token, result |-> c.value,
                                  hit |-> TRUE],
                    !.begun = @ + 1]
     ELSE [d EXCEPT !.calls[p] = [pc |-> "await", token |-> token, result |-> 0,
                                  hit |-> FALSE],
                    !.remote[key] = @ + 1,
                    !.begun = @ + 1]

(* lines 11-16 after the await: the answer is checked, cached and returned *)
settleDecimals(d, p, answered) ==
  LET key == toLowerCase(d.calls[p].token)
      v == d.onchain[key]
  IN IF ~answered THEN [d EXCEPT !.calls[p].pc = "threw"]
     ELSE IF ~validDecimals(v) THEN [d EXCEPT !.calls[p].pc = "threw"]
     ELSE [d EXCEPT !.cache = cacheSet(@, key, v),
                    !.calls[p].pc = "returned",
                    !.calls[p].result = v]

(* a caller starts getErc20Decimals(provider, token) *)
DecimalsEnter(p) ==
  /\ dc.calls[p].pc # "await"
  /\ dc.begun < MaxCalls
  /\ \E t \in Currencies : dc' = enterDecimals(dc, p, t)
  /\ UNCHANGED <<cfg, events, head, file, sync, trace, committed, obs, rpc, gl, ap, mo, rk, qr, un>>

(* the awaited decimals() call resolves with the token's decimals *)
DecimalsAnswer(p) ==
  /\ dc.calls[p].pc = "await"
  /\ dc' = settleDecimals(dc, p, TRUE)
  /\ UNCHANGED <<cfg, events, head, file, sync, trace, committed, obs, rpc, gl, ap, mo, rk, qr, un>>

(* the awaited decimals() call rejects *)
DecimalsReject(p) ==
  /\ dc.calls[p].pc = "await"
  /\ dc' = settleDecimals(dc, p, FALSE)
  /\ UNCHANGED <<cfg, events, head, file, sync, trace, committed, obs, rpc, gl, ap, mo, rk, qr, un>>

----------------------------------------------------------------------------
(* checkRisk (risk/risk-checker.ts) *)

MaxQty == 2

(* an optional field of the intent or of the configuration *)
Absent == [given |-> FALSE, value |-> 0]

AbsentStr == [given |-> FALSE, value |-> << >>]

Unset == [given |-> FALSE, value |-> << >>]

Given(v) == [given |-> TRUE, value |-> v]

(* the spellings that match /^0x[0-9a-fA-F]{40}$/ *)
AddressShaped == {"0xaa", "0xAA", "0xAa", "0xbb", "0xBB", "0xBb"}

(* COLLECTION_ALLOWLIST split on commas and blanks, lines 102-105: unset, *)
(* one address in upper case, or one entry that is not an address         *)
AllowRaws == {Unset, Given(<<"0xAA">>), Given(<<"junk">>)}

(* variant: the entries are kept as they are spelled *)
parseAllowlistVerbatim(raw) ==
  IF ~raw.given THEN {}
  ELSE {raw.value[i] : i \in {j \in DOMAIN raw.value : raw.value[j] \in AddressShaped}}

(* lines 100-113: the lowercased entries that are addresses *)
parseAllowlist(raw) ==
  IF ~raw.given THEN {}
  ELSE {toLowerCase(raw.value[i]) :
          i \in {j \in DOMAIN raw.value : raw.value[j] \in AddressShaped}}

(* variant: the quantity check also rejects quantity = MAX_QTY *)
exceedsMaxQtyInclusive(quantity, max) == quantity >= max

(* line 45 *)
exceedsMaxQty(quantity, max) == quantity > max

(* lines 52-53: the collection of a selected order is not in the list *)
notAllowed(allowlist, o) == toLowerCase(getAddress(o.collectionAddr)) \notin allowlist

(* variant: a price equal to the ceiling is rejected *)
overCeilingInclusive(amount, ceiling) == amount >= ceiling

(* lines 61, 69, 81 and 90 *)
overCeiling(amount, ceiling) == amount > ceiling

RECURSIVE sumPrices(_)
(* lines 68 and 89: selectedOrders.reduce((acc, o) => acc + o.order.price, 0n) *)
sumPrices(orders) ==
  IF orders = << >> THEN 0 ELSE orders[1].price + sumPrices(Tail(orders))

(* variant: the human ceilings are converted whenever they are not undefined *)
truthyStrGiven(s) == s.given

(* line 74: a string is truthy when it is given and not empty *)
truthyStr(s) == s.given /\ s.value # << >>

RECURSIVE pow10(_)
pow10(d) == IF d = 0 THEN 1 ELSE 10 * pow10(d - 1)

(* Amounts as strings (trading/pricing.ts, 30-40): a string is the        *)
(* sequence of its characters                                             *)

MaxLen == 4

MaxDecimals == 2

MaxRaw == 120

Digits == <<"0", "1", "2", "3", "4", "5", "6", "7", "8", "9">>

isDigit(c) == \E i \in DOMAIN Digits : Digits[i] = c

allDigits(s) == \A i \in DOMAIN s : isDigit(s[i])

RECURSIVE trimStart(_)
trimStart(s) == IF s # << >> /\ Head(s) = " " THEN trimStart(Tail(s)) ELSE s

RECURSIVE trimEnd(_)
trimEnd(s) ==
  IF s # << >> /\ s[Len(s)] = " " THEN trimEnd(SubSeq(s, 1, Len(s) - 1)) ELSE s

(* String.prototype.trim of line 31 *)
trim(s) == trimEnd(trimStart(s))

RECURSIVE stripCommas(_)
(* .replace(/,/g, '') of line 31: every comma goes, wherever it stands *)
stripCommas(s) ==
  IF s = << >> THEN << >>
  ELSE IF Head(s) = "," THEN stripCommas(Tail(s))
  ELSE <<Head(s)>> \o stripCommas(Tail(s))

(* /^\d+(\.\d+)?$/.test of line 32 *)
matchesAmount(s) ==
  \/ s # << >> /\ allDigits(s)
  \/ \E i \in DOMAIN s :
       /\ s[i] = "."
       /\ 1 < i /\ i < Len(s)
       /\ allDigits(SubSeq(s, 1, i - 1))
       /\ allDigits(SubSeq(s, i + 1, Len(s)))

(* the digits before the point of a string that matched *)
wholePart(s) ==
  IF \E i \in DOMAIN s : s[i] = "."
  THEN SubSeq(s, 1, (CHOOSE i \in DOMAIN s : s[i] = ".") - 1)
  ELSE s

(* the digits after the point, none without a point *)
fractionPart(s) ==
  IF \E i \in DOMAIN s : s[i] = "."
  THEN SubSeq(s, (CHOOSE i \in DOMAIN s : s[i] = ".") + 1, Len(s))
  ELSE << >>

zeros(n) == [i \in 1..n |-> "0"]

RECURSIVE digitsValue(_)
(* BigInt(digits) *)
digitsValue(s) ==
  IF s = << >> THEN 0
  ELSE 10 * digitsValue(SubSeq(s, 1, Len(s) - 1))
         + (CHOOSE i \in DOMAIN Digits : Digits[i] = s[Len(s)]) - 1

RECURSIVE decimalString(_)
(* bigint.toString() of a value that is not negative *)
decimalString(n) ==
  IF n < 10 THEN <<Digits[n + 1]>>
  ELSE Append(decimalString(n \div 10), Digits[(n % 10) + 1])

(* variant: digits beyond the token's decimals are cut off *)
parseUnitsTruncating(cleaned, decimals) ==
  LET padded == fractionPart(cleaned) \o zeros(decimals)
  IN [ok |-> TRUE, err |-> "none",
      value |-> digitsValue(wholePart(cleaned) \o SubSeq(padded, 1, decimals))]

(* parseUnits of ethers on a string that matched (line 35): the fraction  *)
(* is padded with zeros to the token's decimals, digits beyond them must  *)
(* all be zero or the call throws, and whole and fraction are read as one *)
(* integer                                                                *)
parseUnits(cleaned, decimals) ==
  LET padded == fractionPart(cleaned) \o zeros(decimals)
  IN IF \E i \in (decimals + 1)..Len(padded) : padded[i] # "0"
     THEN [ok |-> FALSE, err |-> "too many decimals for format", value |-> 0]
     ELSE [ok |-> TRUE, err |-> "none",
           value |-> digitsValue(wholePart(cleaned) \o SubSeq(padded, 1, decimals))]

(* parseDecimalToUnits of pricing.ts, lines 30-36 *)
parseDecimalToUnits(human, decimals) ==
  LET cleaned == stripCommas(trim(human))
  IN IF ~matchesAmount(cleaned)
     THEN [ok |-> FALSE, err |-> "Invalid amount", value |-> 0]
     ELSE parseUnits(cleaned, decimals)

RECURSIVE stripLeadingZeros(_)
stripLeadingZeros(s) ==
  IF Len(s) > 1 /\ Head(s) = "0" THEN stripLeadingZeros(Tail(s)) ELSE s

RECURSIVE stripTrailingZeros(_)
stripTrailingZeros(s) ==
  IF Len(s) > 1 /\ s[Len(s)] = "0"
  THEN stripTrailingZeros(SubSeq(s, 1, Len(s) - 1)) ELSE s

(* variant: a whole amount is written with a bare point and no fraction *)
formatUnitsBarePoint(amount, decimals) ==
  LET str    == decimalString(amount)
      padded == zeros(Max(0, decimals + 1 - Len(str))) \o str
      index  == Len(padded) - decimals
      frac   == stripTrailingZeros(SubSeq(padded, index + 1, Len(padded)))
  IN IF decimals = 0 THEN str
     ELSE stripLeadingZeros(SubSeq(padded, 1, index)) \o <<".">>
            \o (IF frac = <<"0">> THEN << >> ELSE frac)

(* formatUnits of ethers (line 39): no point at zero decimals; otherwise  *)
(* the digits are padded to a whole digit, the point is put in, and       *)
(* zeros are trimmed on both sides, one digit being kept on each          *)
formatUnits(amount, decimals) ==
  LET str    == decimalString(amount)
      padded == zeros(Max(0, decimals + 1 - Len(str))) \o str
      index  == Len(padded) - decimals
  IN IF decimals = 0 THEN str
     ELSE stripLeadingZeros(SubSeq(padded, 1, index)) \o <<".">>
            \o stripTrailingZeros(SubSeq(padded, index + 1, Len(padded)))

(* lines 38-40 *)
formatUnitsHuman(amount, decimals) == formatUnits(amount, decimals)

(* one conversion: the string or the amount handed in, the token's        *)
(* decimals, and what came back                                           *)
UnitsCall(human, amount, decimals) ==
  [op |-> "none", human |-> human, amount |-> amount, decimals |-> decimals,
   ok |-> FALSE, err |-> "none", value |-> 0, text |-> << >>]

NoUnits == UnitsCall(<< >>, 0, 0)

(* parseDecimalToUnits(human, decimals) *)
ParseDecimalToUnits ==
  /\ un.op = "none"
  /\ LET r == parseDecimalToUnits(un.human, un.decimals)
     IN un' = [un EXCEPT !.op = "parsed", !.ok = r.ok, !.err = r.err, !.value = r.value]
  /\ UNCHANGED <<cfg, events, head, file, sync, trace, committed, obs, rpc, gl, ap, mo, rk, qr, dc>>

(* formatUnitsHuman(amount, decimals) *)
FormatUnitsHuman ==
  /\ un.op = "none"
  /\ un' = [un EXCEPT !.op = "formatted", !.text = formatUnitsHuman(un.amount, un.decimals)]
  /\ UNCHANGED <<cfg, events, head, file, sync, trace, committed, obs, rpc, gl, ap, mo, rk, qr, dc>>

(* parseDecimalToUnits of what formatUnitsHuman returned *)
ParseFormatted ==
  /\ un.op = "formatted"
  /\ LET r == parseDecimalToUnits(un.text, un.decimals)
     IN un' = [un EXCEPT !.op = "roundtrip", !.ok = r.ok, !.err = r.err, !.value = r.value]
  /\ UNCHANGED <<cfg, events, head, file, sync, trace, committed, obs, rpc, gl, ap, mo, rk, qr, dc>>

(* a checkRisk call: the configuration, the intent, the selected orders   *)
(* and its position; probes (getBlockNumber calls sent) and checks (the   *)
(* checks evaluated, in order) are history                                *)
RiskCall(pc, maxQty, allow, quantity, orders, unitRaw, totalRaw, unitHuman, totalHuman) ==
  [pc |-> pc, MAX_QTY |-> maxQty, COLLECTION_ALLOWLIST |-> allow,
   quantity |-> quantity, orders |-> orders,
   maxUnitPriceRaw |-> unitRaw, maxTotalRaw |-> totalRaw,
   maxUnitPriceUsdOL |-> unitHuman, maxTotalUsdOL |-> totalHuman,
   usdolDecimals |-> 0, probes |-> 0, checks |-> << >>, err |-> "none"]

NoRisk == RiskCall("none", 0, Unset, 0, << >>, Absent, Absent, AbsentStr, AbsentStr)

Rejects(r, check, err) == [r EXCEPT !.pc = "threw", !.err = err, !.checks = Append(@, check)]

Passes(r, check, pc) == [r EXCEPT !.pc = pc, !.checks = Append(@, check)]

(* lines 45-47 *)
CheckQuantity ==
  /\ rk.pc = "quantity"
  /\ rk' = IF exceedsMaxQty(rk.quantity, rk.MAX_QTY)
           THEN Rejects(rk, "quantity", "quantity exceeds MAX_QTY")
           ELSE Passes(rk, "quantity", "allowlist")
  /\ UNCHANGED <<cfg, events, head, file, sync, trace, committed, obs, rpc, gl, ap, mo, qr, dc, un>>

(* lines 49-57 *)
CheckAllowlist ==
  /\ rk.pc = "allowlist"
  /\ LET allowlist == parseAllowlist(rk.COLLECTION_ALLOWLIST)
     IN rk' = IF /\ Cardinality(allowlist) > 0
                 /\ \E i \in DOMAIN rk.orders : notAllowed(allowlist, rk.orders[i])
              THEN Rejects(rk, "allowlist", "collection not allowed")
              ELSE Passes(rk, "allowlist", "unitRaw")
  /\ UNCHANGED <<cfg, events, head, file, sync, trace, committed, obs, rpc, gl, ap, mo, qr, dc, un>>

(* lines 59-65 *)
CheckUnitRaw ==
  /\ rk.pc = "unitRaw"
  /\ rk' = IF /\ rk.maxUnitPriceRaw.given
              /\ \E i \in DOMAIN rk.orders :
                   overCeiling(rk.orders[i].price, rk.maxUnitPriceRaw.value)
           THEN Rejects(rk, "unitRaw", "price exceeds maxUnitPriceRaw")
           ELSE Passes(rk, "unitRaw", "totalRaw")
  /\ UNCHANGED <<cfg, events, head, file, sync, trace, committed, obs, rpc, gl, ap, mo, qr, dc, un>>

(* lines 67-72 *)
CheckTotalRaw ==
  /\ rk.pc = "totalRaw"
  /\ rk' = IF /\ rk.maxTotalRaw.given
              /\ overCeiling(sumPrices(rk.orders), rk.maxTotalRaw.value)
           THEN Rejects(rk, "totalRaw", "total exceeds maxTotalRaw")
           ELSE Passes(rk, "totalRaw", "human")
  /\ UNCHANGED <<cfg, events, head, file, sync, trace, committed, obs, rpc, gl, ap, mo, qr, dc, un>>

(* lines 74-75: without a human ceiling the call returns; with one, the   *)
(* endpoints are probed in list order until one answers                   *)
RiskPickProvider ==
  /\ rk.pc = "human"
  /\ rk' = IF ~(truthyStr(rk.maxUnitPriceUsdOL) \/ truthyStr(rk.maxTotalUsdOL))
           THEN [rk EXCEPT !.pc = "returned"]
           ELSE LET pick == pickProvider(rpc.up)
                    sent == IF pick.ok
                            THEN CHOOSE i \in DOMAIN urls : urls[i] = pick.cur
                            ELSE Len(urls)
                IN IF pick.ok
                   THEN [rk EXCEPT !.pc = "decimals", !.probes = sent]
                   ELSE [rk EXCEPT !.pc = "threw", !.probes = sent,
                                   !.err = "No healthy RPC endpoint"]
  /\ UNCHANGED <<cfg, events, head, file, sync, trace, committed, obs, rpc, gl, ap, mo, qr, dc, un>>

(* line 76 up to the await inside getErc20Decimals *)
RiskGetDecimals ==
  /\ rk.pc = "decimals"
  /\ dc' = enterDecimals(dc, 1, USDOL_ADDRESS)
  /\ rk' = [rk EXCEPT !.pc = "decimalsWait"]
  /\ UNCHANGED <<cfg, events, head, file, sync, trace, committed, obs, rpc, gl, ap, mo, qr, un>>

(* line 76: getErc20Decimals has settled *)
RiskDecimalsSettled ==
  /\ rk.pc = "decimalsWait"
  /\ dc.calls[1].pc \in {"returned", "threw"}
  /\ rk' = IF dc.calls[1].pc = "threw"
           THEN [rk EXCEPT !.pc = "threw", !.err = "provider error"]
           ELSE [rk EXCEPT !.pc = "unitHuman", !.usdolDecimals = dc.calls[1].result]
  /\ UNCHANGED <<cfg, events, head, file, sync, trace, committed, obs, rpc, gl, ap, mo, qr, dc, un>>

(* lines 78-85 *)
CheckUnitHuman ==
  /\ rk.pc = "unitHuman"
  /\ rk' = IF ~truthyStr(rk.maxUnitPriceUsdOL) THEN Passes(rk, "unitHuman", "totalHuman")
           ELSE LET maxUnit == parseDecimalToUnits(rk.maxUnitPriceUsdOL.value,
                                                   rk.usdolDecimals)
                IN IF ~maxUnit.ok THEN Rejects(rk, "unitHuman", maxUnit.err)
                   ELSE IF \E i \in DOMAIN rk.orders :
                             overCeiling(rk.orders[i].price, maxUnit.value)
                   THEN Rejects(rk, "unitHuman", "price exceeds maxUnitPriceUsdOL")
                   ELSE Passes(rk, "unitHuman", "totalHuman")
  /\ UNCHANGED <<cfg, events, head, file, sync, trace, committed, obs, rpc, gl, ap, mo, qr, dc, un>>

(* lines 87-94 *)
CheckTotalHuman ==
  /\ rk.pc = "totalHuman"
  /\ rk' = IF ~truthyStr(rk.maxTotalUsdOL) THEN Passes(rk, "totalHuman", "returned")
           ELSE LET maxTotal == parseDecimalToUnits(rk.maxTotalUsdOL.value, rk.usdolDecimals)
                IN IF ~maxTotal.ok THEN Rejects(rk, "totalHuman", maxTotal.err)
                   ELSE IF overCeiling(sumPrices(rk.orders), maxTotal.value)
                   THEN Rejects(rk, "totalHuman", "total exceeds maxTotalUsdOL")
                   ELSE Passes(rk, "totalHuman", "returned")
  /\ UNCHANGED <<cfg, events, head, file, sync, trace, committed, obs, rpc, gl, ap, mo, qr, dc, un>>

----------------------------------------------------------------------------
(* Queries over the active sell orders (orderbook-indexer.ts, 301-427) *)

MaxN == 3

(* the clock of the model: Math.floor(Date.now() / 1000), line 313 *)
NowSec == 2

(* decimal strings of the persisted bigint fields *)
(* bigint.toString() of toPersistedOrder, lines 20-26 *)
bigintToString(n) == Digits[n + 1]

(* BigInt(string) of fromPersistedOrder, lines 37-43 *)
BigInt(str) == (CHOOSE i \in DOMAIN Digits : Digits[i] = str) - 1

(* an Order as scanRange builds it from the contract's tuple, lines 200-213 *)
Order(side, currency, amount, expiry, collectionAddr, price) ==
  [side |-> side, saleKind |-> 1,
   nft |-> [tokenId |-> 7, collectionAddr |-> normAddr(collectionAddr), amount |-> amount],
   price |-> price, currency |-> normAddr(currency), expiry |-> expiry]

(* lines 13-28 *)
toPersistedOrder(o) ==
  [side |-> o.side, saleKind |-> o.saleKind,
   nft |-> [tokenId |-> bigintToString(o.nft.tokenId),
            collectionAddr |-> normAddr(o.nft.collectionAddr),
            amount |-> bigintToString(o.nft.amount)],
   price |-> bigintToString(o.price), currency |-> normAddr(o.currency),
   expiry |-> bigintToString(o.expiry)]

(* lines 30-45 *)
fromPersistedOrder(p) ==
  [side |-> p.side, saleKind |-> p.saleKind,
   nft |-> [tokenId |-> BigInt(p.nft.tokenId), collectionAddr |-> p.nft.collectionAddr,
            amount |-> BigInt(p.nft.amount)],
   price |-> BigInt(p.price), currency |-> p.currency, expiry |-> BigInt(p.expiry)]

(* lines 51-54 *)
isExpired(o, nowSec) == IF o.expiry = 0 THEN FALSE ELSE o.expiry <= nowSec

(* an IndexedOrder of the index file *)
Indexed(status, o) ==
  [status |-> status, firstSeenBlock |-> 1, lastUpdateBlock |-> 1, order |-> toPersistedOrder(o)]

(* the entries an index file can hold under a key: an open sell order in  *)
(* the quote token, one NFT, no expiry, an allowed collection, at any     *)
(* price, and the same entry with one or two of its fields otherwise      *)
IndexedOrders ==
  UNION {{Indexed("open", Order(0, "0xcc", 1, 0, "0xaa", pr)),
          Indexed("cancelled", Order(0, "0xcc", 1, 0, "0xaa", pr)),
          Indexed("filled", Order(0, "0xcc", 1, 0, "0xaa", pr)),
          Indexed("open", Order(1, "0xcc", 1, 0, "0xaa", pr)),
          Indexed("open", Order(0, "0xdd", 1, 0, "0xaa", pr)),
          Indexed("open", Order(0, "0xcc", 2, 0, "0xaa", pr)),
          Indexed("open", Order(0, "0xcc", 1, NowSec - 1, "0xaa", pr)),
          Indexed("open", Order(0, "0xcc", 1, NowSec, "0xaa", pr)),
          Indexed("open", Order(0, "0xcc", 1, NowSec + 1, "0xaa", pr)),
          Indexed("open", Order(0, "0xcc", 1, 0, "0xbb", pr)),
          Indexed("cancelled", Order(0, "0xcc", 1, NowSec - 1, "0xbb", pr))} :
         pr \in 1..MaxPrice}

(* the keys of the file in the order Object.entries yields them *)
KeyOrder == <<"K1", "K2", "K3">>

(* the index files a query can find: none, or a snapshot of this deployment *)
IndexFiles ==
  {AbsentFile}
    \cup {writeIndex([chainId |-> 1, orderbook |-> "0xaa", lastScannedBlock |-> 1,
                      ordersByKey |-> m]) :
            m \in UNION {[D -> IndexedOrders] : D \in SUBSET {"K1", "K2", "K3"}}}

(* variant: the status of the entry is not looked at *)
isActiveAnyStatus(p, usdol, allowlist, nowSec) ==
  LET order == fromPersistedOrder(p.order)
  IN /\ isSellOrder(order)
     /\ normAddr(order.currency) = normAddr(usdol)
     /\ order.nft.amount = 1
     /\ ~isExpired(order, nowSec)
     /\ (Cardinality(allowlist) > 0 => normAddr(order.nft.collectionAddr) \in allowlist)

(* lines 326-333: the entry passes every filter of the loop *)
isActive(p, usdol, allowlist, nowSec) ==
  /\ p.status = "open"
  /\ LET order == fromPersistedOrder(p.order)
     IN /\ isSellOrder(order)
        /\ normAddr(order.currency) = normAddr(usdol)
        /\ order.nft.amount = 1
        /\ ~isExpired(order, nowSec)
        /\ (Cardinality(allowlist) > 0 => normAddr(order.nft.collectionAddr) \in allowlist)

RECURSIVE collectActive(_, _, _, _, _)
(* lines 325-342: the loop over Object.entries(state.ordersByKey) *)
collectActive(keys, byKey, usdol, allowlist, nowSec) ==
  IF keys = << >> THEN << >>
  ELSE LET k == Head(keys)
           rest == collectActive(Tail(keys), byKey, usdol, allowlist, nowSec)
       IN IF k \in DOMAIN byKey /\ isActive(byKey[k], usdol, allowlist, nowSec)
          THEN <<[orderKey |-> k, order |-> fromPersistedOrder(byKey[k].order),
                  status |-> byKey[k].status,
                  firstSeenBlock |-> byKey[k].firstSeenBlock,
                  lastUpdateBlock |-> byKey[k].lastUpdateBlock]>> \o rest
          ELSE rest

(* lines 310-344 *)
getActiveSellOrders(f, allowRaw, nowSec) ==
  LET state == readIndex(f)
  IN IF IsNull(state) THEN << >>
     ELSE collectActive(KeyOrder, state.ordersByKey, USDOL_ADDRESS,
                        parseAllowlist(allowRaw), nowSec)

RECURSIVE insertByPrice(_, _)
(* one entry put after the entries that are not dearer than it *)
insertByPrice(sorted, o) ==
  IF sorted = << >> THEN <<o>>
  ELSE IF o.order.price < Head(sorted).order.price THEN <<o>> \o sorted
  ELSE <<Head(sorted)>> \o insertByPrice(Tail(sorted), o)

RECURSIVE sortByPrice(_)
(* line 425: Array.prototype.sort with the price comparator, stable *)
sortByPrice(orders) ==
  IF orders = << >> THEN << >>
  ELSE insertByPrice(sortByPrice(SubSeq(orders, 1, Len(orders) - 1)), orders[Len(orders)])

(* Array.prototype.slice(0, n): a negative n counts from the end *)
slice(arr, n) ==
  LET len == Len(arr)
      end == IF n < 0 THEN Max(len + n, 0) ELSE Min(n, len)
  IN SubSeq(arr, 1, end)

(* lines 424-426 *)
cheapestN(f, allowRaw, nowSec, n) == slice(sortByPrice(getActiveSellOrders(f, allowRaw, nowSec)), n)

RECURSIVE minPrice(_, _)
(* lines 403-406 *)
minPrice(min, orders) ==
  IF orders = << >> THEN min
  ELSE minPrice(IF Head(orders).order.price < min THEN Head(orders).order.price ELSE min,
                Tail(orders))

(* variant: the first order's price is returned *)
floorPriceFirst(f, allowRaw, nowSec) ==
  LET orders == getActiveSellOrders(f, allowRaw, nowSec)
  IN IF Len(orders) = 0 THEN [null |-> TRUE, value |-> 0]
     ELSE [null |-> FALSE, value |-> orders[1].order.price]

(* lines 400-407 *)
floorPrice(f, allowRaw, nowSec) ==
  LET orders == getActiveSellOrders(f, allowRaw, nowSec)
  IN IF Len(orders) = 0 THEN [null |-> TRUE, value |-> 0]
     ELSE [null |-> FALSE, value |-> minPrice(orders[1].order.price, orders)]

(* a query of the indexer: the configured allow-list, the clock, the      *)
(* call made and what it returned                                         *)
QueryCall(allow, now) ==
  [COLLECTION_ALLOWLIST |-> allow, now |-> now, op |-> "none", n |-> 0,
   orders |-> << >>, floor |-> [null |-> TRUE, value |-> 0]]

NoQuery == QueryCall(Unset, 0)

(* GET /orders without a limit that applies: getActiveSellOrders() *)
GetActiveSellOrders ==
  /\ qr.op = "none"
  /\ qr' = [qr EXCEPT !.op = "getActiveSellOrders",
                      !.orders = getActiveSellOrders(file, qr.COLLECTION_ALLOWLIST, qr.now)]
  /\ UNCHANGED <<cfg, events, head, file, sync, trace, committed, obs, rpc, gl, ap, mo, rk, dc, un>>

(* cheapestN(n) for the limit of the request *)
CheapestN ==
  /\ qr.op = "none"
  /\ \E n \in -1..MaxN :
       qr' = [qr EXCEPT !.op = "cheapestN", !.n = n,
                        !.orders = cheapestN(file, qr.COLLECTION_ALLOWLIST, qr.now, n)]
  /\ UNCHANGED <<cfg, events, head, file, sync, trace, committed, obs, rpc, gl, ap, mo, rk, dc, un>>

(* floorPrice() *)
FloorPrice ==
  /\ qr.op = "none"
  /\ qr' = [qr EXCEPT !.op = "floorPrice",
                      !.floor = floorPrice(file, qr.COLLECTION_ALLOWLIST, qr.now)]
  /\ UNCHANGED <<cfg, events, head, file, sync, trace, committed, obs, rpc, gl, ap, mo, rk, dc, un>>

----------------------------------------------------------------------------
(* Specifications *)

MkConfig(f, s) ==
  [CHAIN_ID |-> 1, ORDERBOOK_ADDRESS |-> "0xaa", INDEXER_FROM_BLOCK |-> f, step |-> s]

(* INDEX_FROM_BLOCK unset with chunks of one block, or set to 2 with chunks of two *)
Configs == {MkConfig(0, 1), MkConfig(2, 2)}

(* no checkRisk call, no query, an empty decimals cache *)
TradingAtRest ==
  /\ rk = NoRisk
  /\ qr = NoQuery
  /\ dc = NoDecimals
  /\ un = NoUnits

InitCommon ==
  /\ cfg \in Configs
  /\ events = << >>
  /\ sync = [p \in Procs |-> Idle("none", 0)]
  /\ trace = [p \in Procs |-> << >>]
  /\ committed = file
  /\ obs = NoObs
  /\ rpc = Rpc(FALSE, MaxHead)
  /\ gl = NoCall
  /\ ap = NoApply
  /\ mo = NoMatch
  /\ TradingAtRest

(* first start: no index file yet, the chain at its genesis block *)
Init ==
  /\ head = 0
  /\ file = AbsentFile
  /\ InitCommon

(* An index file left by an earlier run: of another chain, of another      *)
(* order book, or of this deployment with the address spelled in another   *)
(* case (block 1 scanned, no log in it).                                   *)
OtherChainIndex ==
  [chainId |-> 2, orderbook |-> "0xaa", lastScannedBlock |-> 2,
   ordersByKey |-> [k \in {"K1"} |->
                     [status |-> "open", firstSeenBlock |-> 1, lastUpdateBlock |-> 1]]]

OtherBookIndex == [OtherChainIndex EXCEPT !.chainId = 1, !.orderbook = "0xbb"]

SameBookIndex ==
  [chainId |-> 1, orderbook |-> "0xAA", lastScannedBlock |-> 1, ordersByKey |-> EmptyOrders]

InitStale ==
  /\ \/ head = 0 /\ file \in {writeIndex(OtherChainIndex), writeIndex(OtherBookIndex)}
     \/ head = 1 /\ file = writeIndex(SameBookIndex)
  /\ InitCommon

Pass(p) == SyncStart(p) \/ ScanChunk(p) \/ ScanThrows(p) \/ WriteOpen(p) \/ WriteDone(p)

Next == MineBlock \/ Pass(1)

Spec == Init /\ [][Next]_vars

(* The indexer is not running while the chain goes on: more blocks than   *)
(* the default look-back of line 146 are mined, none of them with a log   *)
(* of the order book.                                                     *)
Outage ==
  /\ sync[1].pc = "idle"
  /\ head < MaxHead
  /\ head' = head + PruneWindow + 2
  /\ UNCHANGED <<cfg, events, file, sync, trace, committed, obs, rpc, gl, ap, mo, rk, qr, dc, un>>

(* INDEXER_BATCH_SIZE large enough for a pass over the look-back to be    *)
(* one chunk, INDEXER_FROM_BLOCK unset or set to 2                        *)
InitOutage ==
  /\ head = 0
  /\ file = AbsentFile
  /\ cfg \in {MkConfig(0, 2 * PruneWindow), MkConfig(2, 2 * PruneWindow)}
  /\ events = << >>
  /\ sync = [p \in Procs |-> Idle("none", 0)]
  /\ trace = [p \in Procs |-> << >>]
  /\ committed = file
  /\ obs = NoObs
  /\ rpc = Rpc(FALSE, MaxHead)
  /\ gl = NoCall
  /\ ap = NoApply
  /\ mo = NoMatch
  /\ TradingAtRest

NextOutage == MineBlock \/ Outage \/ Pass(1)

SpecOutage == InitOutage /\ [][NextOutage]_vars

(* first start, chunks of two blocks, on a chain that also holds logs to  *)
(* skip                                                                   *)
InitSkip ==
  /\ head = 0
  /\ file = AbsentFile
  /\ cfg = MkConfig(0, 2)
  /\ events = << >>
  /\ sync = [p \in Procs |-> Idle("none", 0)]
  /\ trace = [p \in Procs |-> << >>]
  /\ committed = file
  /\ obs = NoObs
  /\ rpc = Rpc(FALSE, MaxHead)
  /\ gl = NoCall
  /\ ap = NoApply
  /\ mo = NoMatch
  /\ TradingAtRest

NextSkip == MineFaulty \/ Pass(1)

SpecSkip == InitSkip /\ [][NextSkip]_vars

(* first start with INDEXER_BATCH_SIZE of one block or of the whole       *)
(* chain: with the latter a pass is one chunk, and the passes split the   *)
(* chain wherever a block is mined between two of them, so every          *)
(* division of the chain into consecutive ranges is scanned               *)
InitChunks ==
  /\ head = 0
  /\ file = AbsentFile
  /\ cfg \in {MkConfig(0, 1), MkConfig(0, MaxHead)}
  /\ events = << >>
  /\ sync = [p \in Procs |-> Idle("none", 0)]
  /\ trace = [p \in Procs |-> << >>]
  /\ committed = file
  /\ obs = NoObs
  /\ rpc = Rpc(FALSE, MaxHead)
  /\ gl = NoCall
  /\ ap = NoApply
  /\ mo = NoMatch
  /\ TradingAtRest

SpecChunks == InitChunks /\ [][Next]_vars

(* INDEXER_BATCH_SIZE as parseInt reads it from the environment (line     *)
(* 151): any integer, 0 included; every RPC call of a pass returns        *)
InitLoop ==
  /\ head = 0
  /\ file = AbsentFile
  /\ cfg \in {MkConfig(0, step) : step \in 0..2}
  /\ events = << >>
  /\ sync = [p \in Procs |-> Idle("none", 0)]
  /\ trace = [p \in Procs |-> << >>]
  /\ committed = file
  /\ obs = NoObs
  /\ rpc = Rpc(FALSE, MaxHead)
  /\ gl = NoCall
  /\ ap = NoApply
  /\ mo = NoMatch
  /\ TradingAtRest

(* the steps of a pass whose RPC calls all return *)
PassReturns(p) == SyncStart(p) \/ ScanChunk(p) \/ WriteOpen(p) \/ WriteDone(p)

NextLoop == MineBlock \/ PassReturns(1)

SpecLoop == InitLoop /\ [][NextLoop]_vars

(* a pass in progress goes on: each awaited call returns and the loop     *)
(* takes its next step                                                    *)
SpecLoopFair == SpecLoop /\ WF_vars(ScanChunk(1) \/ WriteOpen(1) \/ WriteDone(1))

(* the same passes, starting from an index file left by an earlier run *)
SpecStale == InitStale /\ [][Next]_vars

(* passes that a process crash may interrupt at any point *)
NextCrash == MineBlock \/ Pass(1) \/ Crash(1)

SpecCrash == Init /\ [][NextCrash]_vars

(* passes with queries served in between their steps *)
NextQuery == MineBlock \/ Pass(1) \/ Query

SpecQuery == Init /\ [][NextQuery]_vars


(* no sync pass, no query: the indexer's file and positions at rest *)
IndexerAtRest ==
  /\ cfg = MkConfig(0, 1)
  /\ file = AbsentFile
  /\ sync = [p \in Procs |-> Idle("none", 0)]
  /\ trace = [p \in Procs |-> << >>]
  /\ committed = file
  /\ obs = NoObs

(* what a block of the chain can hold in the getLogsSafe runs *)
BlockLogs(b) ==
  {<< >>, <<MakeLog(b, "K1", TRUE), MakeLog(b, "K2", TRUE), CancelLog(b, "K1")>>}

RECURSIVE ChainsUpTo(_)
ChainsUpTo(h) ==
  IF h = 0 THEN {<< >>}
  ELSE {c \o l : c \in ChainsUpTo(h - 1), l \in BlockLogs(h)}

(* two sync() calls in flight on the one index file (POST /sync twice),   *)
(* on a chain of MaxHead blocks, no index file yet                         *)
InitConc ==
  /\ head = MaxHead
  /\ events \in ChainsUpTo(MaxHead)
  /\ cfg \in Configs
  /\ file = AbsentFile
  /\ sync = [p \in Procs |-> Idle("none", 0)]
  /\ trace = [p \in Procs |-> << >>]
  /\ committed = file
  /\ obs = NoObs
  /\ rpc = Rpc(FALSE, MaxHead)
  /\ gl = NoCall
  /\ ap = NoApply
  /\ mo = NoMatch
  /\ TradingAtRest

NextConc == Pass(1) \/ Pass(2)

SpecConc == InitConc /\ [][NextConc]_vars

(* getLogsSafe calls on a chain of MaxHead blocks, against endpoints that  *)
(* come and go; the provider either fails eth_getLogs at will or rejects   *)
(* exactly the ranges of more than maxRange blocks                         *)
InitRpc ==
  /\ head = MaxHead
  /\ events \in ChainsUpTo(MaxHead)
  /\ IndexerAtRest
  /\ rpc \in {Rpc(TRUE, MaxHead)} \cup {Rpc(FALSE, m) : m \in 1..MaxHead}
  /\ gl = NoCall
  /\ ap = NoApply
  /\ mo = NoMatch
  /\ TradingAtRest

NextRpc ==
  EndpointChange \/ ScanRangeEnter \/ FetchOk \/ FetchBisect \/ FetchRetry \/ FetchThrow
    \/ CallEnds

SpecRpc == InitRpc /\ [][NextRpc]_vars

(* the loop of getLogsSafe goes on: every await of an iteration settles *)
SpecRpcFair == SpecRpc /\ WF_vars(Fetch)

(* a Cancel or Match log met by the loops of scanRange, any map, any log *)
InitApply ==
  /\ head = 0
  /\ events = << >>
  /\ IndexerAtRest
  /\ rpc = Rpc(FALSE, MaxHead)
  /\ gl = NoCall
  /\ ap \in {[done |-> FALSE, orders |-> o, log |-> l, out |-> o] :
               o \in OrderMaps, l \in ApplyLogs}
  /\ mo = NoMatch
  /\ TradingAtRest

NextApply == ApplyCancel \/ ApplyMatch

SpecApply == InitApply /\ [][NextApply]_vars

(* the NFT of the sell order handed to matchOrder: one token of a        *)
(* collection spelled as the index stores it, or several (uint96 amount) *)
SellNfts == {[tokenId |-> 7, collectionAddr |-> "0xaa", amount |-> n] : n \in 1..2}

(* one matchOrder call: any options, price, currency and allowance, the   *)
(* endpoints up or down                                                    *)
InitMatch ==
  /\ head = 0
  /\ events = << >>
  /\ IndexerAtRest
  /\ rpc \in {[Rpc(FALSE, MaxHead) EXCEPT !.up = up] : up \in [Endpoints -> BOOLEAN]}
  /\ gl = NoCall
  /\ ap = NoApply
  /\ mo \in {[MatchCall("start", d, m, p, c, a) EXCEPT !.nft = nft, !.now = NowSec] :
               d \in BOOLEAN, m \in BOOLEAN, p \in 1..MaxPrice,
               c \in Currencies, a \in 0..MaxPrice, nft \in SellNfts}
  /\ TradingAtRest

NextMatch ==
  PickProvider \/ CheckCurrency \/ ReadAllowance \/ SubmitApprove \/ ApproveWait
    \/ BuildBuyOrder \/ SubmitMatch \/ MatchWait

SpecMatch == InitMatch /\ [][NextMatch]_vars

(* the orders handed to checkRisk: one or two, of either collection, at   *)
(* any price, or one more than MAX_QTY of them, all alike                 *)
Selected == [collectionAddr : {"0xaa", "0xbb"}, price : 1..MaxPrice]

SelectedOrders ==
  {<<a>> : a \in Selected} \cup {<<a, b>> : a \in Selected, b \in Selected}
    \cup {[i \in 1..(MaxQty + 1) |-> a] : a \in Selected}

(* the intents and configurations of a checkRisk call *)
RiskCalls ==
  {RiskCall("quantity", MaxQty, allow, q, orders, ur, tr, uh, th) :
     allow \in AllowRaws, q \in (MaxQty - 1)..(MaxQty + 1), orders \in SelectedOrders,
     ur \in {Absent, Given(0), Given(1)}, tr \in {Absent, Given(0), Given(2)},
     uh \in {AbsentStr, Given(<< >>), Given(<<"1">>), Given(<<"x">>)},
     th \in {AbsentStr, Given(<<"2">>)}}

(* one checkRisk call: any intent, selection and allow-list, the         *)
(* endpoints up or down, the quote token's decimals cached or not, the   *)
(* index file as a sync pass left it                                     *)
InitRisk ==
  /\ head = 1
  /\ events = << >>
  /\ cfg = MkConfig(0, 1)
  /\ file = writeIndex(SameBookIndex)
  /\ sync = [p \in Procs |-> Idle("none", 0)]
  /\ trace = [p \in Procs |-> << >>]
  /\ committed = file
  /\ obs = NoObs
  /\ rpc \in {[Rpc(FALSE, MaxHead) EXCEPT !.up = up] : up \in [Endpoints -> BOOLEAN]}
  /\ gl = NoCall
  /\ ap = NoApply
  /\ mo = NoMatch
  /\ qr = NoQuery
  /\ dc \in {Decimals(IF hit THEN [k \in {toLowerCase(USDOL_ADDRESS)} |-> d] ELSE EmptyCache,
                        [k \in TokenKeys |-> d]) :
               d \in DecimalsValues, hit \in BOOLEAN}
  /\ rk \in RiskCalls
  /\ un = NoUnits

NextRisk ==
  CheckQuantity \/ CheckAllowlist \/ CheckUnitRaw \/ CheckTotalRaw \/ RiskPickProvider
    \/ RiskGetDecimals \/ DecimalsAnswer(1) \/ DecimalsReject(1) \/ RiskDecimalsSettled
    \/ CheckUnitHuman \/ CheckTotalHuman

SpecRisk == InitRisk /\ [][NextRisk]_vars

(* getErc20Decimals calls of two callers, in any interleaving, from an    *)
(* empty cache                                                            *)
InitDecimals ==
  /\ head = 0
  /\ events = << >>
  /\ IndexerAtRest
  /\ rpc = Rpc(FALSE, MaxHead)
  /\ gl = NoCall
  /\ ap = NoApply
  /\ mo = NoMatch
  /\ rk = NoRisk
  /\ qr = NoQuery
  /\ dc \in {Decimals(EmptyCache, onchain) : onchain \in [TokenKeys -> DecimalsValues]}
  /\ un = NoUnits

NextDecimals == \E p \in Procs : DecimalsEnter(p) \/ DecimalsAnswer(p) \/ DecimalsReject(p)

SpecDecimals == InitDecimals /\ [][NextDecimals]_vars

(* one query of the active sell orders over any index file, with the     *)
(* allow-list unset, set to an address or set to an entry that is none    *)
InitActive ==
  /\ head = 1
  /\ events = << >>
  /\ cfg = MkConfig(0, 1)
  /\ file \in IndexFiles
  /\ sync = [p \in Procs |-> Idle("none", 0)]
  /\ trace = [p \in Procs |-> << >>]
  /\ committed = file
  /\ obs = NoObs
  /\ rpc = Rpc(FALSE, MaxHead)
  /\ gl = NoCall
  /\ ap = NoApply
  /\ mo = NoMatch
  /\ rk = NoRisk
  /\ dc = NoDecimals
  /\ un = NoUnits
  /\ qr \in {QueryCall(allow, NowSec) : allow \in AllowRaws}

NextActive == GetActiveSellOrders \/ CheapestN \/ FloorPrice

SpecActive == InitActive /\ [][NextActive]_vars

(* the snapshots a query can find at INDEX_PATH: of the configured        *)
(* deployment, or left there by a run against another chain or another    *)
(* order book                                                             *)
DeploymentFiles ==
  {writeIndex([chainId |-> c, orderbook |-> ob, lastScannedBlock |-> 1, ordersByKey |-> m]) :
     c \in {1, 2}, ob \in {"0xaa", "0xbb"},
     m \in UNION {[D -> IndexedOrders] : D \in SUBSET {"K1", "K2"}}}

InitForeign ==
  /\ head = 1
  /\ events = << >>
  /\ cfg = MkConfig(0, 1)
  /\ file \in DeploymentFiles
  /\ sync = [p \in Procs |-> Idle("none", 0)]
  /\ trace = [p \in Procs |-> << >>]
  /\ committed = file
  /\ obs = NoObs
  /\ rpc = Rpc(FALSE, MaxHead)
  /\ gl = NoCall
  /\ ap = NoApply
  /\ mo = NoMatch
  /\ rk = NoRisk
  /\ dc = NoDecimals
  /\ un = NoUnits
  /\ qr \in {QueryCall(allow, NowSec) : allow \in {Unset, Given(<<"0xAA">>)}}

SpecForeign == InitForeign /\ [][NextActive]_vars

(* the characters an amount is written with: digits, the point, the      *)
(* thousands separator, white space and a character of neither kind      *)
AmountChars == {"0", "1", "2", "5", ".", ",", " ", "x"}

Amounts == UNION {[1..n -> AmountChars] : n \in 0..MaxLen}

(* the conversions: any string or any raw amount at any decimals, and the *)
(* documented pair "12.5" / 12500000 at six decimals                      *)
UnitsCalls ==
  {UnitsCall(h, 0, d) : h \in Amounts, d \in 0..MaxDecimals}
    \cup {UnitsCall(<< >>, r, d) : r \in 0..MaxRaw, d \in 0..MaxDecimals}
    \cup {UnitsCall(<<"1", "2", ".", "5">>, 12500000, 6)}

InitUnits ==
  /\ head = 0
  /\ events = << >>
  /\ IndexerAtRest
  /\ rpc = Rpc(FALSE, MaxHead)
  /\ gl = NoCall
  /\ ap = NoApply
  /\ mo = NoMatch
  /\ rk = NoRisk
  /\ qr = NoQuery
  /\ dc = NoDecimals
  /\ un \in UnitsCalls

NextUnits == ParseDecimalToUnits \/ FormatUnitsHuman \/ ParseFormatted

SpecUnits == InitUnits /\ [][NextUnits]_vars

----------------------------------------------------------------------------
(* Properties *)

Terminal == {"cancelled", "filled"}

(* p's step is one scanRange call: the chunk [ScanFrom(p), ScanTo(p)] *)
ScanStep(p) == sync[p].pc = "scan" /\ sync'[p].pc = "write"
ScanFrom(p) == sync[p].from
ScanTo(p) == sync'[p].state.lastScannedBlock
OrdersBefore(p) == sync[p].state.ordersByKey
OrdersAfter(p) == sync'[p].state.ordersByKey

(* the sell leg of a Match log: the order with side = 0 *)
SellLeg(e) == IF OrderOf(e.k1).side = 0 THEN e.k1 ELSE e.k2
BuyLeg(e) == IF SellLeg(e) = e.k1 THEN e.k2 ELSE e.k1

(* the logs about the sell order k in the blocks lo..hi *)
MakesOf(k, lo, hi) ==
  SelectSeq(events, LAMBDA e : e.type = "make" /\ e.k1 = k /\ e.blk >= lo /\ e.blk <= hi)
CancelsOf(k, lo, hi) ==
  SelectSeq(events, LAMBDA e : e.type = "cancel" /\ e.k1 = k /\ e.blk >= lo /\ e.blk <= hi)
MatchesOf(k, lo, hi) ==
  SelectSeq(events, LAMBDA e : e.type = "match" /\ SellLeg(e) = k /\ e.blk >= lo /\ e.blk <= hi)

(* the first block a sync from scratch scans under the configuration *)
FirstBlock ==
  IF cfg.INDEXER_FROM_BLOCK > 0 THEN cfg.INDEXER_FROM_BLOCK ELSE Max(1, head - PruneWindow)

(* the index file holds a snapshot of the configured deployment *)
Synced == file.kind = "json" /\ sameDeployment(file.data)

(* C1: for every orderKey the indexed status changes only from open to      *)
(* cancelled or from open to filled: across every scanRange call, an entry  *)
(* that is cancelled or filled keeps its status.                            *)
C1_StatusTerminal ==
  [][\A p \in Procs : \A k \in Keys :
       (ScanStep(p) /\ k \in DOMAIN OrdersBefore(p) /\ OrdersBefore(p)[k].status \in Terminal)
         => OrdersAfter(p)[k].status = OrdersBefore(p)[k].status]_vars

(* C5: a sell order K made at block N and cancelled at block N' >= N (its   *)
(* only logs in the scanned blocks) is, once the index has passed N', in    *)
(* the index as cancelled with firstSeenBlock = N and lastUpdateBlock = N', *)
(* whether the two logs fell into one chunk or into two.                    *)
MadeThenCancelled(k) ==
  LET lsb == file.data.lastScannedBlock
      makes == MakesOf(k, FirstBlock, lsb)
      cancels == CancelsOf(k, FirstBlock, lsb)
  IN /\ Synced
     /\ Len(makes) = 1 /\ makes[1].ok /\ isSellOrder(OrderOf(k))
     /\ Len(cancels) = 1
     /\ MatchesOf(k, FirstBlock, lsb) = << >>
     /\ cancels[1].blk >= makes[1].blk

(* C5: made at N then cancelled at N' >= N implies the persisted entry is  *)
(* cancelled with firstSeenBlock = N and lastUpdateBlock = N'              *)
C5_MakeThenCancel ==
  \A k \in Keys :
    MadeThenCancelled(k) =>
      LET lsb == file.data.lastScannedBlock
      IN /\ k \in DOMAIN file.data.ordersByKey
         /\ file.data.ordersByKey[k] =
              [status |-> "cancelled",
               firstSeenBlock |-> MakesOf(k, FirstBlock, lsb)[1].blk,
               lastUpdateBlock |-> CancelsOf(k, FirstBlock, lsb)[1].blk]

(* C5 witness: K1 made and cancelled in one block, scanned and persisted *)
C5_Witness ==
  /\ MadeThenCancelled("K1")
  /\ file.data.ordersByKey["K1"].status = "cancelled"
  /\ file.data.ordersByKey["K1"].firstSeenBlock = file.data.ordersByKey["K1"].lastUpdateBlock

(* C6: a sell order K made at block N and matched at a block M >= N (its    *)
(* only logs in the scanned blocks), as the maker or as the taker leg, is   *)
(* in the index as filled with lastUpdateBlock = M, and the key of the      *)
(* buy-side leg is not in ordersByKey.                                      *)
MadeThenMatched(k) ==
  LET lsb == file.data.lastScannedBlock
      makes == MakesOf(k, FirstBlock, lsb)
      matches == MatchesOf(k, FirstBlock, lsb)
  IN /\ Synced
     /\ Len(makes) = 1 /\ makes[1].ok /\ isSellOrder(OrderOf(k))
     /\ Len(matches) = 1
     /\ CancelsOf(k, FirstBlock, lsb) = << >>
     /\ matches[1].blk >= makes[1].blk

(* C6: made at N then matched at M >= N implies the persisted entry is     *)
(* filled with lastUpdateBlock = M and the buy leg's key is absent         *)
C6_MatchFillsSellLeg ==
  \A k \in Keys :
    MadeThenMatched(k) =>
      LET lsb == file.data.lastScannedBlock
          m == MatchesOf(k, FirstBlock, lsb)[1]
      IN /\ k \in DOMAIN file.data.ordersByKey
         /\ file.data.ordersByKey[k].status = "filled"
         /\ file.data.ordersByKey[k].lastUpdateBlock = m.blk
         /\ BuyLeg(m) \notin DOMAIN file.data.ordersByKey

(* C6 witness: K1 filled by a Match in which it is the taker leg, with a    *)
(* Make log of the buy order K2 scanned as well                             *)
C6_Witness ==
  /\ MadeThenMatched("K1")
  /\ MatchesOf("K1", FirstBlock, file.data.lastScannedBlock)[1].k2 = "K1"
  /\ MakesOf("K2", FirstBlock, file.data.lastScannedBlock) # << >>
  /\ file.data.ordersByKey["K1"].status = "filled"

(* C7: a scanRange call that processes a Make log of a key whose entry is   *)
(* filled leaves firstSeenBlock unchanged and never leaves the entry open;  *)
(* the entry stays filled unless the same chunk also cancels the key.       *)
C7_FilledNotResurrected ==
  [][\A p \in Procs : \A k \in Keys :
       (/\ ScanStep(p)
        /\ k \in DOMAIN OrdersBefore(p)
        /\ OrdersBefore(p)[k].status = "filled"
        /\ MakesOf(k, ScanFrom(p), ScanTo(p)) # << >>)
         => /\ OrdersAfter(p)[k].firstSeenBlock = OrdersBefore(p)[k].firstSeenBlock
            /\ OrdersAfter(p)[k].status # "open"
            /\ (CancelsOf(k, ScanFrom(p), ScanTo(p)) = << >>
                  => OrdersAfter(p)[k].status = "filled")]_vars

(* C7 witness: a chunk with a Make log of K1 has been scanned over an       *)
(* entry that was filled, and the Make log has updated the entry            *)
C7_Witness ==
  \E p \in Procs :
    /\ sync[p].pc = "write"
    /\ Synced
    /\ "K1" \in DOMAIN file.data.ordersByKey
    /\ file.data.ordersByKey["K1"].status = "filled"
    /\ LET makes == MakesOf("K1", sync[p].from, sync[p].state.lastScannedBlock)
       IN /\ makes # << >>
          /\ sync[p].state.ordersByKey["K1"].status = "filled"
          /\ sync[p].state.ordersByKey["K1"].lastUpdateBlock = makes[Len(makes)].blk
          /\ sync[p].state.ordersByKey["K1"].lastUpdateBlock
               > file.data.ordersByKey["K1"].lastUpdateBlock

(* C2: the persisted lastScannedBlock never decreases, never exceeds the    *)
(* head read by the pass that writes it, and no scanRange call of a pass    *)
(* covers a block at or below the lastScannedBlock the pass started from.   *)
C2_NoRescan ==
  \A p \in Procs : \A i \in 1..Len(trace[p]) :
    trace[p][i].op = "scan" => trace[p][i].from > trace[p][1].lsb

C2_Monotone ==
  (committed.kind = "json" /\ committed'.kind = "json" /\ sameDeployment(committed.data))
    => committed'.data.lastScannedBlock >= committed.data.lastScannedBlock

C2_BelowHead ==
  \A p \in Procs :
    (sync[p].pc = "writing" /\ sync'[p].pc # "writing")
      => file'.kind = "json" /\ file'.data.lastScannedBlock <= sync[p].head

(* C2: no rescan below the starting lastScannedBlock, and every completed  *)
(* write keeps lastScannedBlock non-decreasing and at most the pass's head *)
C2_LastScannedBlock == [](C2_NoRescan) /\ [][C2_Monotone /\ C2_BelowHead]_vars

(* C2 witness: a pass that resumed from a persisted snapshot has written a *)
(* later one                                                                *)
C2_Witness ==
  \E p \in Procs :
    /\ Len(trace[p]) >= 3
    /\ cfg.INDEXER_FROM_BLOCK = 0
    /\ trace[p][1].lsb >= 1
    /\ trace[p][3].op = "write"
    /\ Synced
    /\ file.data.lastScannedBlock > trace[p][1].lsb

(* C3: within a pass the calls alternate scanRange, writeIndex; the first  *)
(* chunk begins at start, every chunk lies within [start, head], every     *)
(* write carries lastScannedBlock = the end of the chunk just scanned,     *)
(* every later chunk begins right after the previous one, and a pass that  *)
(* returns has written lastScannedBlock = head.                            *)
C3_ChunksInOrder ==
  \A p \in Procs :
    LET t == trace[p]
    IN t # << >> =>
         /\ t[1].op = "start"
         /\ \A i \in 2..Len(t) :
              /\ t[i].op = (IF i % 2 = 0 THEN "scan" ELSE "write")
              /\ t[i].op = "scan" =>
                   /\ t[i].from <= t[i].to
                   /\ t[i].to <= t[1].to
                   /\ t[i].from = (IF i = 2 THEN t[1].from ELSE t[i - 2].to + 1)
              /\ t[i].op = "write" => t[i].lsb = t[i - 1].to
         /\ (sync[p].pc = "idle" /\ sync[p].outcome = "ok") =>
              t[Len(t)].op = "write" /\ t[Len(t)].lsb = t[1].to

(* C3 witness: a pass of at least two chunks has returned *)
C3_Witness ==
  \E p \in Procs :
    /\ sync[p].pc = "idle"
    /\ sync[p].outcome = "ok"
    /\ Len(trace[p]) >= 5

(* C4: whenever no pass is running, also after an interrupted one, the     *)
(* index file is the snapshot of the last completed writeIndex.            *)
C4_CrashSafe ==
  (\A p \in Procs : sync[p].pc = "idle") => file = committed

(* p's last sync() returned normally and no block was mined since it read  *)
(* the head                                                                 *)
AfterRun(p) == sync[p].pc = "idle" /\ sync[p].outcome = "ok" /\ sync[p].head = head

SecondRunNoop ==
  \A p \in Procs :
    (AfterRun(p) /\ head' = head)
      => file' = file /\ sync'[p].pc = "idle" /\ sync'[p].outcome = "ok"

(* C8 as stated: after a run at head H, with no new block, the persisted   *)
(* lastScannedBlock is H, and a second run leaves the index file as it is. *)
C8_AsStated ==
  [](\A p \in Procs :
       AfterRun(p) => file.kind = "json" /\ file.data.lastScannedBlock = head)
    /\ [][SecondRunNoop]_vars

(* C8 amended: a second run leaves the index file as it is and returns;    *)
(* the persisted lastScannedBlock is H provided H has reached the first    *)
(* block to scan.                                                           *)
C8_IdempotentResync ==
  [](\A p \in Procs :
       (AfterRun(p) /\ FirstBlock <= head)
         => file.kind = "json" /\ file.data.lastScannedBlock = head)
    /\ [][SecondRunNoop]_vars

(* C8 witness: a run has returned at once, at the head the index file was  *)
(* already synced to                                                        *)
C8_Witness ==
  \E p \in Procs :
    /\ AfterRun(p)
    /\ trace[p] = << >>
    /\ head >= 1
    /\ Synced
    /\ file.data.lastScannedBlock = head
    /\ DOMAIN file.data.ordersByKey # {}

(* C9: once sync() has returned, the index file holds no snapshot of       *)
(* another chainId or order book.                                           *)
C9_Invalidated ==
  \A p \in Procs :
    (sync[p].pc = "idle" /\ sync[p].outcome = "ok" /\ file.kind = "json")
      => sameDeployment(file.data)

(* C10: a query reads the snapshot of the last completed writeIndex.       *)
C10_QuerySeesCommitted ==
  [][obs' # obs => obs'.state = readIndex(committed)]_vars

----------------------------------------------------------------------------
(* Properties of getLogsSafe and ensureProvider *)

(* the step in which sync() rejects: the error leaves scanRange *)
ThrowStep == gl.pc # "threw" /\ gl'.pc = "threw"

(* a step that runs ensureProvider: scanRange's entry or a loop iteration *)
ProbeStep == gl.pc \in {"idle", "run"} /\ gl' # gl

(* the logs of the requested range, in chain order *)
Expected ==
  SelectSeq(events, LAMBDA e : e.type = gl.topic /\ e.blk >= gl.from /\ e.blk <= gl.to)

(* C11: a single-block range whose fetch keeps failing has been fetched    *)
(* again 2 times when its error leaves getLogsSafe, whatever number of     *)
(* bisections produced the range.                                          *)
C11_OwnRetryBudget ==
  (gl.pc = "threw" /\ gl.failed # NoItem) => gl.failed.retries = 2

(* C12: against a provider that rejects exactly the ranges longer than     *)
(* maxRange >= 1, with an endpoint answering throughout, getLogsSafe never *)
(* throws, every call in progress returns, and what it returns is the logs *)
(* of [from, to], each once, in ascending block order.                     *)
C12_BisectionProgress ==
  [](AnyUp(rpc.up)) =>
    /\ [](~rpc.flaky => (gl.pc # "threw" /\ (gl.pc = "done" => gl.out = Expected)))
    /\ ((~rpc.flaky /\ gl.pc = "run") ~> (gl.pc = "done"))

(* C12 witness: a call on a range longer than maxRange has returned logs   *)
(* of more than one block                                                  *)
C12_Witness ==
  /\ gl.pc = "done"
  /\ ~rpc.flaky
  /\ rpc.maxRange < gl.to - gl.from + 1
  /\ Len(gl.out) >= 2
  /\ gl.out[1].blk < gl.out[Len(gl.out)].blk

(* C13 as stated: sync() rejects only when no configured endpoint answers  *)
(* getBlockNumber.                                                         *)
C13_AsStated == [][ThrowStep => ~AnyUp(rpc.up)]_vars

(* C13 amended: sync() rejects only when no configured endpoint answers,   *)
(* or when the fetch of a single-block range fails with the range's        *)
(* attempt counter at 2 or more; a failure on a range of several blocks    *)
(* never rejects.                                                          *)
C13_ThrowsAfterAttempts ==
  [][ThrowStep =>
       \/ ~AnyUp(rpc.up)
       \/ /\ gl.pc = "run"
          /\ Top(gl.stack).from = Top(gl.stack).to
          /\ Top(gl.stack).attempts >= 2]_vars

(* C13 witness: the call threw on a getLogs failure while a configured     *)
(* endpoint answered the probe                                             *)
C13_Witness ==
  /\ gl.pc = "threw"
  /\ gl.err = "getLogs failed"
  /\ gl.failed.from = gl.failed.to
  /\ rpc.probed
  /\ rpc.up[rpc.cur]

(* the provider changes only in a probe that the current endpoint fails *)
ChangesOnFailure == rpc'.cur # rpc.cur => ProbeStep /\ ~rpc.up[rpc.cur]

(* scanRange's ensureProvider throws exactly when no endpoint answers *)
NoHealthyExactly ==
  (gl.pc = "idle" /\ gl' # gl) => ((gl'.pc = "threw") <=> ~AnyUp(rpc.up))

(* C14 as stated: every probe selects the first endpoint of the list that  *)
(* answers, the endpoint is kept unless a call fails, and the probe fails  *)
(* exactly when no endpoint answers.                                       *)
C14_AsStated ==
  [][/\ (ProbeStep /\ AnyUp(rpc.up)) => rpc'.cur = FirstUp(rpc.up)
     /\ ChangesOnFailure
     /\ NoHealthyExactly]_vars

(* C14 amended: a probe keeps the current endpoint when it answers, also   *)
(* when an earlier endpoint of the list answers again, and selects the     *)
(* first endpoint of the list that answers when it does not; the endpoint  *)
(* changes at no other time; the probe fails exactly when no endpoint      *)
(* answers.                                                                *)
C14_StickyEndpoint ==
  [][/\ (ProbeStep /\ AnyUp(rpc.up)) =>
          rpc'.cur = (IF rpc.up[rpc.cur] THEN rpc.cur ELSE FirstUp(rpc.up))
     /\ ChangesOnFailure
     /\ NoHealthyExactly]_vars

(* C14 witness: a probe has kept the second endpoint while the first one   *)
(* answers again                                                           *)
C14_Witness ==
  /\ gl.pc = "run"
  /\ rpc.probed
  /\ rpc.cur = urls[2]
  /\ rpc.up[urls[1]]
  /\ rpc.up[urls[2]]

----------------------------------------------------------------------------
(* Properties of the cancel and match loops *)

(* the key a Cancel or Match log refers to: the orderKey, or the sell leg  *)
RefKey(log) == IF log.type = "cancel" THEN log.k1 ELSE SellLeg(log)

(* C15: a Cancel or Match log whose (sell-side) orderKey is not in         *)
(* ordersByKey leaves ordersByKey as it was: no entry created, none        *)
(* modified.                                                               *)
C15_UnknownKeyNoop ==
  (ap.done /\ RefKey(ap.log) \notin DOMAIN ap.orders) => ap.out = ap.orders

(* C15 witness: a Match log whose sell leg K1 (the taker) is unknown has   *)
(* been applied to a map that holds K3                                     *)
C15_Witness ==
  /\ ap.done
  /\ ap.log.type = "match"
  /\ ap.log.k2 = "K1"
  /\ RefKey(ap.log) = "K1"
  /\ DOMAIN ap.orders = {"K3"}
  /\ ap.out = ap.orders

----------------------------------------------------------------------------
(* Properties of concurrent passes *)

(* C16: every completed write replaces the whole snapshot by the writer's  *)
(* in-memory state, whatever the file held (last writer wins); the witness *)
(* is the interleaving after which the file is behind what the other pass  *)
(* had persisted.                                                          *)
C16_LastWriterWins ==
  [][\A p \in Procs :
       (sync[p].pc = "writing" /\ sync'[p].pc # "writing")
         => file' = [kind |-> "json", data |-> sync[p].state]]_vars

(* C16 witness: the file holds p's snapshot, with a lastScannedBlock below *)
(* the one the other pass q wrote earlier in its pass                      *)
C16_Witness ==
  \E p \in Procs : \E q \in Procs \ {p} :
    /\ file.kind = "json"
    /\ trace[p] # << >>
    /\ trace[p][Len(trace[p])].op = "write"
    /\ trace[p][Len(trace[p])].lsb = file.data.lastScannedBlock
    /\ \E i \in 1..Len(trace[q]) :
         /\ trace[q][i].op = "write"
         /\ trace[q][i].lsb > file.data.lastScannedBlock

----------------------------------------------------------------------------
(* Properties of matchOrder *)

Approvals == SelectSeq(mo.txs, LAMBDA t : t.kind = "approve")
Matches == SelectSeq(mo.txs, LAMBDA t : t.kind = "match")

(* sell.currency is not the quote token, in whatever case it is spelled *)
CurrencyDiffers == mo.currency \notin {"0xcc", "0xCC"}

(* C17: a matchOrder call with dryRun = true submits no approval and no    *)
(* match transaction, whatever the allowance, and what it returns is null. *)
C17_DryRunSubmitsNothing ==
  mo.dryRun => (mo.txs = << >> /\ (mo.pc = "returned" => mo.result = "null"))

(* C17 witness: a dry run has returned with the allowance below the price  *)
C17_Witness ==
  /\ mo.dryRun
  /\ mo.pc = "returned"
  /\ mo.read
  /\ mo.allowance < mo.price

(* C18: without dryRun an approval is submitted iff the allowance read is  *)
(* below sell.price, for exactly sell.price or, with approveMax, for the   *)
(* maximum; the match transaction is submitted only after the approval's   *)
(* wait has completed; after a failed approval no match is submitted.      *)
C18_ApprovalBeforeMatch ==
  ~mo.dryRun =>
    /\ Len(Approvals) <= 1
    /\ Approvals # << >> =>
         /\ mo.read
         /\ mo.allowance < mo.price
         /\ mo.txs[1].kind = "approve"
         /\ IF mo.approveMax THEN mo.txs[1].amount.max
            ELSE ~mo.txs[1].amount.max /\ mo.txs[1].amount.value = mo.price
    /\ (mo.read /\ mo.allowance < mo.price
          /\ mo.pc \in {"approveWait", "build", "match", "matchWait", "returned"})
         => Approvals # << >>
    /\ Matches # << >> =>
         /\ mo.read
         /\ mo.allowance < mo.price => (Approvals # << >> /\ mo.confirmed)
    /\ (mo.pc = "threw" /\ mo.at \in {"approve", "approveWait"}) => Matches = << >>

(* C18 witness: a call has returned after an approval for the maximum and  *)
(* the match                                                               *)
C18_Witness ==
  /\ mo.pc = "returned"
  /\ mo.approveMax
  /\ Len(mo.txs) = 2
  /\ mo.txs[1].amount.max
  /\ mo.txs[2].kind = "match"

(* the revert of the match transaction is an execution failure, no hash *)
RevertThrows ==
  mo.receipt = "status0" =>
    (mo.pc = "threw" /\ mo.err = "execution failed" /\ mo.result = "none")

MismatchFrame ==
  /\ CurrencyDiffers => (~mo.read /\ mo.txs = << >> /\ mo.pc # "returned")
  /\ mo.err = "Sell order currency is not USDOL" => CurrencyDiffers

----------------------------------------------------------------------------
(* Properties of checkRisk *)

(* the call has got past the quantity check, or was rejected by it *)
QuantityChecked == rk.pc \notin {"none", "quantity"}

(* the call was rejected by the quantity check *)
QuantityRejected == rk.pc = "threw" /\ rk.err = "quantity exceeds MAX_QTY"

(* C21: checkRisk rejects with the quantity-exceeded error exactly when    *)
(* intent.quantity > MAX_QTY (quantity = MAX_QTY is not rejected by the    *)
(* quantity check), and the quantity check is evaluated before every other *)
(* check: it is the first check of every call, and a call it rejects has   *)
(* evaluated no other check and made no remote call.                       *)
C21_QuantityFirst ==
  /\ QuantityChecked => (QuantityRejected <=> rk.quantity > rk.MAX_QTY)
  /\ rk.checks # << >> => rk.checks[1] = "quantity"
  /\ (rk.probes > 0 \/ dc.begun > 0) => (rk.checks # << >> /\ ~QuantityRejected)
  /\ QuantityRejected => rk.checks = <<"quantity">>

(* C21 witness: a call with quantity = MAX_QTY has passed the quantity     *)
(* check and was rejected by the allow-list check that follows it          *)
C21_Witness ==
  /\ rk.quantity = rk.MAX_QTY
  /\ rk.pc = "threw"
  /\ rk.checks = <<"quantity", "allowlist">>
  /\ rk.err = "collection not allowed"

(* the call has returned or thrown *)
RiskEnded == rk.pc \in {"returned", "threw"}

(* the addresses of the configured allow-list, as they are spelled *)
ConfiguredList ==
  IF ~rk.COLLECTION_ALLOWLIST.given THEN {}
  ELSE {rk.COLLECTION_ALLOWLIST.value[i] :
          i \in {j \in DOMAIN rk.COLLECTION_ALLOWLIST.value :
                   rk.COLLECTION_ALLOWLIST.value[j] \in AddressShaped}}

(* some selected order's collection is no member of the list, whatever the *)
(* case of the letters                                                     *)
SomeNotMember ==
  \E i \in DOMAIN rk.orders :
    \A e \in ConfiguredList : toLowerCase(e) # toLowerCase(rk.orders[i].collectionAddr)

CollectionRejected == rk.pc = "threw" /\ rk.err = "collection not allowed"

(* C22: with a non-empty allow-list, a call with a selected order whose    *)
(* collection is not a case-insensitive member of the list is rejected (by *)
(* the collection check unless the quantity check rejected it first), and  *)
(* the collection check rejects no other call; with an empty allow-list no *)
(* call is rejected on collection grounds.                                 *)
C22_AllowlistMembership ==
  /\ (RiskEnded /\ ConfiguredList # {} /\ SomeNotMember) =>
       /\ rk.pc = "threw"
       /\ ~QuantityRejected => CollectionRejected
  /\ CollectionRejected => (ConfiguredList # {} /\ SomeNotMember)
  /\ ConfiguredList = {} => ~CollectionRejected

(* C22 witness: with the list {0xAA} a selection of an order of 0xaa and   *)
(* an order of 0xbb was rejected by the collection check                   *)
C22_Witness ==
  /\ CollectionRejected
  /\ ConfiguredList = {"0xAA"}
  /\ Len(rk.orders) = 2
  /\ rk.orders[1].collectionAddr = "0xaa"
  /\ rk.orders[2].collectionAddr = "0xbb"

(* some selected order is priced above the raw per-unit ceiling *)
OverUnitRaw ==
  /\ rk.maxUnitPriceRaw.given
  /\ \E i \in DOMAIN rk.orders : rk.orders[i].price > rk.maxUnitPriceRaw.value

(* the selected orders cost more in total than the raw total ceiling *)
OverTotalRaw ==
  /\ rk.maxTotalRaw.given
  /\ sumPrices(rk.orders) > rk.maxTotalRaw.value

(* C23: a call given a raw per-unit ceiling that some selected order's     *)
(* price exceeds is rejected, and so is a call given a raw total ceiling   *)
(* that the sum of the prices exceeds; the two checks reject nothing else  *)
(* (a price or sum equal to the ceiling passes them), and a ceiling of 0   *)
(* is a ceiling.                                                           *)
C23_RawCeilings ==
  /\ (RiskEnded /\ (OverUnitRaw \/ OverTotalRaw)) => rk.pc = "threw"
  /\ rk.err = "price exceeds maxUnitPriceRaw" => OverUnitRaw
  /\ rk.err = "total exceeds maxTotalRaw" => OverTotalRaw
  /\ (RiskEnded /\ rk.maxUnitPriceRaw = Given(0) /\ rk.checks[Len(rk.checks)] = "unitRaw")
       => rk.err = "price exceeds maxUnitPriceRaw"

(* C23 witness: with a per-unit ceiling of 1, a selection priced 1 and 2   *)
(* was rejected by the per-unit check                                      *)
C23_Witness ==
  /\ rk.pc = "threw"
  /\ rk.err = "price exceeds maxUnitPriceRaw"
  /\ rk.maxUnitPriceRaw = Given(1)
  /\ Len(rk.orders) = 2
  /\ rk.orders[1].price = 1
  /\ rk.orders[2].price = 2

(* the intent carries a human-decimal ceiling (a non-empty string) *)
HumanCeilingPresent ==
  \/ (rk.maxUnitPriceUsdOL.given /\ rk.maxUnitPriceUsdOL.value # << >>)
  \/ (rk.maxTotalUsdOL.given /\ rk.maxTotalUsdOL.value # << >>)

(* the call has sent a getBlockNumber probe or asked for the decimals *)
RemoteCallMade == rk.probes > 0 \/ dc.begun > 0 \/ \E k \in TokenKeys : dc.remote[k] > 0

(* the call was rejected by the quantity, allow-list or raw-ceiling checks *)
RejectedEarlier ==
  /\ rk.pc = "threw"
  /\ rk.err \in {"quantity exceeds MAX_QTY", "collection not allowed",
                 "price exceeds maxUnitPriceRaw", "total exceeds maxTotalRaw"}

RemoteOnlyForHumanCeilings ==
  /\ RemoteCallMade =>
       /\ HumanCeilingPresent
       /\ SubSeq(rk.checks, 1, 4) = <<"quantity", "allowlist", "unitRaw", "totalRaw">>
  /\ RejectedEarlier => ~RemoteCallMade
  /\ dc.remote[toLowerCase(USDOL_ADDRESS)] <= 1

RiskFrame == file' = file /\ rk'.orders = rk.orders /\ events' = events

(* C24: checkRisk probes an endpoint and resolves the quote token's        *)
(* decimals only when a human-decimal ceiling is present and the quantity, *)
(* allow-list and raw-ceiling checks have passed; every other call makes   *)
(* no remote call, and no step of a call changes the index file or the     *)
(* selected orders.                                                        *)
C24_RemoteOnlyWhenNeeded == [](RemoteOnlyForHumanCeilings) /\ [][RiskFrame]_vars

(* C24 witness: a call with a human-decimal ceiling has probed an          *)
(* endpoint, fetched the decimals from the token and returned              *)
C24_Witness ==
  /\ rk.pc = "returned"
  /\ HumanCeilingPresent
  /\ rk.probes > 0
  /\ dc.remote[toLowerCase(USDOL_ADDRESS)] = 1
  /\ file = writeIndex(SameBookIndex)

----------------------------------------------------------------------------
(* Properties of the queries over the active sell orders *)

(* the entries of the index file, none when there is no file *)
Snapshot == IF file.kind = "json" THEN file.data.ordersByKey ELSE EmptyOrders

(* the addresses of the indexer's allow-list, lowercased *)
QueryAllowlist ==
  IF ~qr.COLLECTION_ALLOWLIST.given THEN {}
  ELSE {toLowerCase(qr.COLLECTION_ALLOWLIST.value[i]) :
          i \in {j \in DOMAIN qr.COLLECTION_ALLOWLIST.value :
                   qr.COLLECTION_ALLOWLIST.value[j] \in AddressShaped}}

(* the keys of the entries that are open, sell-side, in the quote token,   *)
(* for one NFT, not expired at the time of the query and, with an          *)
(* allow-list, of a listed collection                                      *)
ActiveKeys ==
  {k \in DOMAIN Snapshot :
     LET e == Snapshot[k]
     IN /\ e.status = "open"
        /\ e.order.side = 0 /\ e.order.saleKind = 1
        /\ toLowerCase(e.order.currency) = toLowerCase(USDOL_ADDRESS)
        /\ e.order.nft.amount = "1"
        /\ (e.order.expiry = "0" \/ BigInt(e.order.expiry) > qr.now)
        /\ (QueryAllowlist # {} => toLowerCase(e.order.nft.collectionAddr) \in QueryAllowlist)}

ReturnedKeys == {qr.orders[i].orderKey : i \in DOMAIN qr.orders}

(* every returned element is the entry of its key, with the order's        *)
(* decimal strings read as numbers                                         *)
ReturnedAsStored ==
  \A i \in DOMAIN qr.orders :
    LET o == qr.orders[i]
        e == Snapshot[o.orderKey]
    IN /\ o.status = e.status
       /\ o.firstSeenBlock = e.firstSeenBlock
       /\ o.lastUpdateBlock = e.lastUpdateBlock
       /\ bigintToString(o.order.price) = e.order.price
       /\ bigintToString(o.order.expiry) = e.order.expiry
       /\ o.order.nft.collectionAddr = e.order.nft.collectionAddr

(* C25: getActiveSellOrders() returns exactly the entries of the snapshot  *)
(* that are open, sell-side, in the configured quote token, with           *)
(* nft.amount = 1, expiry = 0 or expiry > now, and (when the allow-list is *)
(* not empty) a collection of the allow-list, each once; open entries that *)
(* have expired and cancelled or filled entries are not among them.        *)
C25_ActiveSellOrders ==
  qr.op = "getActiveSellOrders" =>
    /\ ReturnedKeys = ActiveKeys
    /\ Len(qr.orders) = Cardinality(ActiveKeys)
    /\ ReturnedAsStored

(* C25 witness: of an active order, an open order whose expiry is the      *)
(* second of the query and a cancelled order, the first alone is returned  *)
C25_Witness ==
  /\ qr.op = "getActiveSellOrders"
  /\ DOMAIN Snapshot = {"K1", "K2", "K3"}
  /\ Snapshot["K2"].status = "open"
  /\ Snapshot["K2"].order.expiry = bigintToString(qr.now)
  /\ Snapshot["K3"].status = "cancelled"
  /\ ReturnedKeys = {"K1"}

(* the prices of the returned orders never decrease *)
AscendingByPrice ==
  \A i \in DOMAIN qr.orders : \A j \in DOMAIN qr.orders :
    i < j => qr.orders[i].order.price <= qr.orders[j].order.price

(* no active order left out is cheaper than a returned one *)
NoneCheaperLeftOut ==
  \A k \in ActiveKeys \ ReturnedKeys : \A i \in DOMAIN qr.orders :
    BigInt(Snapshot[k].order.price) >= qr.orders[i].order.price

(* C26: for every n, cheapestN(n) returns the n lowest-priced active sell  *)
(* orders in ascending price order, and all the active sell orders when    *)
(* fewer than n exist (none for an n below 1).                             *)
C26_CheapestN ==
  qr.op = "cheapestN" =>
    /\ ReturnedKeys \subseteq ActiveKeys
    /\ Len(qr.orders) = Cardinality(ReturnedKeys)
    /\ Len(qr.orders) = Max(0, Min(qr.n, Cardinality(ActiveKeys)))
    /\ AscendingByPrice
    /\ NoneCheaperLeftOut

(* C27: floorPrice() returns null exactly when there is no active sell     *)
(* order, and otherwise the price of an active sell order that no active   *)
(* sell order undercuts.                                                   *)
C27_FloorPrice ==
  qr.op = "floorPrice" =>
    /\ qr.floor.null <=> ActiveKeys = {}
    /\ ~qr.floor.null =>
         /\ \E k \in ActiveKeys : BigInt(Snapshot[k].order.price) = qr.floor.value
         /\ \A k \in ActiveKeys : BigInt(Snapshot[k].order.price) >= qr.floor.value

(* C27 witness: the floor of two active orders is the price of the second, *)
(* the cheaper one                                                         *)
C27_Witness ==
  /\ qr.op = "floorPrice"
  /\ {"K1", "K2"} \subseteq ActiveKeys
  /\ Snapshot["K1"].order.price = "2"
  /\ Snapshot["K2"].order.price = "1"
  /\ ~qr.floor.null
  /\ qr.floor.value = 1

----------------------------------------------------------------------------
(* Properties of the buy order built by matchOrder *)

(* two spellings of one address *)
SameAddress(a, b) == toLowerCase(a) = toLowerCase(b)

(* the fields of the buy order that do not depend on the sell order's      *)
(* amount: sides, maker, token, collection, price, currency and expiry     *)
BuyOrderFields ==
  /\ mo.buy.side = 1
  /\ mo.buy.saleKind = 1
  /\ SameAddress(mo.buy.maker, Buyer)
  /\ mo.buy.nft.tokenId = mo.nft.tokenId
  /\ SameAddress(mo.buy.nft.collectionAddr, mo.nft.collectionAddr)
  /\ mo.buy.price = mo.price
  /\ SameAddress(mo.buy.currency, mo.currency)
  /\ mo.buy.expiry = mo.now + 300

(* C28 as stated: the built buy order has side = 1, saleKind = 1, maker =  *)
(* the executing wallet, the sell order's NFT (tokenId, collection and     *)
(* amount), price and currency, and expiry = build time + 300 s.           *)
C28_AsStated ==
  mo.built => (BuyOrderFields /\ mo.buy.nft.amount = mo.nft.amount)

(* C28 amended: ... the sell order's tokenId, collection, price and        *)
(* currency (the addresses in their checksummed spelling), an amount of 1  *)
(* whatever the sell order's amount, which mirrors it exactly when the     *)
(* sell order is for one NFT, and expiry = build time + 300 s.             *)
C28_BuyMirrorsSell ==
  mo.built =>
    /\ BuyOrderFields
    /\ mo.buy.nft.amount = 1
    /\ mo.buy.nft.collectionAddr = getAddress(mo.nft.collectionAddr)
    /\ mo.buy.currency = getAddress(mo.currency)
    /\ (mo.buy.nft.amount = mo.nft.amount <=> mo.nft.amount = 1)

(* C28 witness: a buy order was built from a sell order for one NFT whose  *)
(* currency is the quote token in upper case, and the match was submitted  *)
C28_Witness ==
  /\ mo.built
  /\ mo.nft.amount = 1
  /\ mo.currency = "0xCC"
  /\ mo.buy.currency = "0xCc"
  /\ mo.buy.price = mo.price
  /\ mo.pc = "matchWait"

(* C29: the salt of every built buy order is a non-zero integer of the     *)
(* width of the random draw (1 <= salt <= 2^SaltBits - 1, SaltBits = 64 in *)
(* the source): it is the number drawn, and 1 when the draw is zero.       *)
C29_SaltNonZero ==
  mo.built =>
    /\ mo.buy.salt >= 1
    /\ mo.buy.salt <= pow2(SaltBits) - 1
    /\ mo.drawn # 0 => mo.buy.salt = mo.drawn
    /\ mo.drawn \in 0..(pow2(SaltBits) - 1)

(* C29 witness: the draw was zero and the buy order went out with salt 1 *)
C29_Witness ==
  /\ mo.built
  /\ mo.drawn = 0
  /\ mo.buy.salt = 1
  /\ mo.pc = "matchWait"

----------------------------------------------------------------------------
(* Properties of the decimals cache *)

(* a call that found the key in the cache returned the cached value *)
HitsReturnCached ==
  \A p \in Procs :
    (dc.calls[p].pc = "returned" /\ dc.calls[p].hit) =>
      LET key == toLowerCase(dc.calls[p].token)
      IN key \in DOMAIN dc.cache /\ dc.calls[p].result = dc.cache[key]

(* C30: in every sequence or interleaving of getErc20Decimals calls, at    *)
(* most one decimals() call is sent per lowercased token address, and the  *)
(* calls answered from the cache return the cached value.                  *)
C30_OneRemoteCallPerToken ==
  /\ \A k \in TokenKeys : dc.remote[k] <= 1
  /\ HitsReturnCached

----------------------------------------------------------------------------
(* Amount conversions (trading/pricing.ts, 30-40) *)

(* the string the pattern is tested on *)
Cleaned == stripCommas(trim(un.human))

(* the digits of the amount read as one integer, and how many of them    *)
(* stand after the point: the amount is AllDigits / 10^FractionLen        *)
AllDigits == digitsValue(wholePart(Cleaned) \o fractionPart(Cleaned))

FractionLen == Len(fractionPart(Cleaned))

(* the amount times 10^decimals is an integer *)
Representable == (AllDigits * pow10(un.decimals)) % pow10(FractionLen) = 0

(* the call returned exactly the amount times 10^decimals *)
ExactlyScaled ==
  /\ un.ok
  /\ un.value * pow10(FractionLen) = AllDigits * pow10(un.decimals)

InvalidAmount == ~un.ok /\ un.err = "Invalid amount"

(* C31 as stated: parseDecimalToUnits fails with the invalid-amount error *)
(* for every input that, trimmed and with its commas removed, does not    *)
(* match ^\d+(\.\d+)?$, and for every input that matches it returns the   *)
(* decimal value times 10^decimals                                        *)
C31_AsStated ==
  un.op = "parsed" =>
    IF matchesAmount(Cleaned) THEN ExactlyScaled ELSE InvalidAmount

(* C31: parseDecimalToUnits fails with the invalid-amount error for every *)
(* input that, trimmed and with its commas removed, does not match the    *)
(* pattern; for an input that matches, it returns exactly the decimal     *)
(* value times 10^decimals when that product is an integer, and otherwise *)
(* fails inside parseUnits with "too many decimals for format", which is  *)
(* not the invalid-amount error                                           *)
C31_ExactOrFails ==
  un.op = "parsed" =>
    /\ ~matchesAmount(Cleaned) => InvalidAmount
    /\ matchesAmount(Cleaned) /\ Representable => ExactlyScaled
    /\ matchesAmount(Cleaned) /\ ~Representable =>
         ~un.ok /\ un.err = "too many decimals for format"

(* an amount with a separator and a fraction was converted *)
C31_Witness ==
  /\ un.op = "parsed"
  /\ un.ok
  /\ \E i \in DOMAIN un.human : un.human[i] = ","
  /\ FractionLen > 0
  /\ un.value > 0

(* C32: parseDecimalToUnits(formatUnitsHuman(r, d), d) = r for every raw  *)
(* amount r >= 0 and every decimals d; at six decimals "12.5" converts to *)
(* 12500000 and 12500000 is written "12.5"                                *)
C32_RoundTrip ==
  /\ un.op = "roundtrip" => un.ok /\ un.value = un.amount
  /\ un.op = "parsed" /\ un.human = <<"1", "2", ".", "5">> /\ un.decimals = 6
       => un.ok /\ un.value = 12500000
  /\ un.op = "formatted" /\ un.amount = 12500000 /\ un.decimals = 6
       => un.text = <<"1", "2", ".", "5">>

(* a whole amount went through formatUnitsHuman and back *)
C32_Witness ==
  /\ un.op = "roundtrip"
  /\ un.decimals > 0
  /\ un.amount > 0
  /\ un.amount % pow10(un.decimals) = 0
  /\ un.value = un.amount

----------------------------------------------------------------------------
(* Successive sync passes (orderbook-indexer.ts, 124-158) *)

(* the block a pass has to start at for the scanned ranges to be          *)
(* contiguous: the block after the persisted lastScannedBlock, or, with   *)
(* no snapshot of this deployment on disk, the configured from-block      *)
(* (by default the head less the look-back)                               *)
ContiguousStart ==
  LET existing == readIndex(file)
  IN IF sameDeployment(existing) THEN existing.lastScannedBlock + 1
     ELSE IF cfg.INDEXER_FROM_BLOCK > 0 THEN cfg.INDEXER_FROM_BLOCK
     ELSE Max(1, head - PruneWindow)

(* C33: with the configuration unchanged, every pass that scans starts at *)
(* exactly the persisted lastScannedBlock + 1 (the first pass at the      *)
(* configured from-block), so that no block between the first scanned     *)
(* block and the persisted lastScannedBlock is left unscanned             *)
C33_ContiguousPasses ==
  [][\A p \in Procs :
       sync[p].pc = "idle" /\ sync'[p].pc = "scan"
         => sync'[p].from = ContiguousStart]_vars

(* C34: a checkRisk call that returns without error was handed at most    *)
(* MAX_QTY selected orders                                                *)
C34_SelectionWithinMaxQty ==
  rk.pc = "returned" => Len(rk.orders) <= rk.MAX_QTY

----------------------------------------------------------------------------
(* Logs that scanRange skips (orderbook-indexer.ts, 181-270) *)

(* a log the loops pass over: it does not parse, or it is a Make whose    *)
(* orders() lookup throws or returns nothing                              *)
Skipped(e) == ~e.parses \/ (e.type = "make" /\ ~e.ok)

(* the logs of one event in a block range, the skipped ones left out *)
Kept(topic, fromBlock, toBlock) ==
  SelectSeq(getLogs(topic, fromBlock, toBlock), LAMBDA e : ~Skipped(e))

(* the chunk as it would be applied were the skipped logs not on the chain *)
WithoutSkipped(orders, fromBlock, toBlock) ==
  processMatchLogs(
    processCancelLogs(
      processMakeLogs(orders, Kept("make", fromBlock, toBlock)),
      Kept("cancel", fromBlock, toBlock)),
    Kept("match", fromBlock, toBlock))

(* C35: a log that fails to parse, and a Make log whose orders() lookup   *)
(* fails, is skipped without aborting the chunk: the chunk leaves         *)
(* ordersByKey as the other logs alone would, and lastScannedBlock        *)
(* advances to the end of the chunk                                       *)
C35_SkippedLogs ==
  [][\A p \in Procs :
       sync[p].pc = "scan" /\ sync'[p].pc = "write"
         => LET from == sync[p].from
                to == Min(sync[p].head, from + cfg.step - 1)
            IN /\ sync'[p].state.ordersByKey
                    = WithoutSkipped(sync[p].state.ordersByKey, from, to)
               /\ sync'[p].state.lastScannedBlock = to]_vars

(* a Make that is skipped stands before a Make of K1 in one block, a      *)
(* Cancel of K1 that does not parse follows: all that has been scanned    *)
(* and written, K1 is open in the index and lastScannedBlock at the head  *)
C35_Witness ==
  /\ sync[1].pc = "idle"
  /\ sync[1].outcome = "ok"
  /\ file.kind = "json"
  /\ file.data.lastScannedBlock = head
  /\ "K1" \in DOMAIN file.data.ordersByKey
  /\ \E i, j, l \in DOMAIN events :
       /\ i < j
       /\ Skipped(events[i]) /\ events[i].type = "make"
       /\ ~Skipped(events[j]) /\ events[j].type = "make"
       /\ events[i].blk = events[j].blk
       /\ ~events[l].parses /\ events[l].type = "cancel"
       /\ events[l].blk >= events[j].blk
  /\ file.data.ordersByKey["K1"].status = "open"

----------------------------------------------------------------------------
(* Queries and the deployment of the snapshot (orderbook-indexer.ts, 301-441) *)

(* C36: a query returns no order of a snapshot whose chainId or order     *)
(* book differs from the configuration                                    *)
C36_NoForeignOrders ==
  (qr.op # "none" /\ ~sameDeployment(readIndex(file)))
    => qr.orders = << >> /\ qr.floor.null

----------------------------------------------------------------------------
(* Chunking and the resulting index (orderbook-indexer.ts, 151-157, 177-270) *)

(* the logs of the blocks lo..hi that name the key k *)
LogsOf(k, type, lo, hi) ==
  SelectSeq(events, LAMBDA e : /\ e.type = type
                               /\ (e.k1 = k \/ e.k2 = k)
                               /\ e.blk >= lo /\ e.blk <= hi)

(* in the blocks lo..hi every key has at most one Make and at most one    *)
(* Cancel or Match, the latter at a block not before the Make             *)
SimpleHistory(lo, hi) ==
  \A k \in Keys :
    LET makes == LogsOf(k, "make", lo, hi)
        ends == LogsOf(k, "cancel", lo, hi) \o LogsOf(k, "match", lo, hi)
    IN /\ Len(makes) <= 1
       /\ Len(ends) <= 1
       /\ (Len(makes) = 1 /\ Len(ends) = 1) => ends[1].blk >= makes[1].blk

(* C37: on such a history the persisted ordersByKey is what one scanRange *)
(* call over all the scanned blocks yields, whatever the chunk size and   *)
(* however the blocks were split into passes                              *)
C37_ChunkingIndependent ==
  (Synced /\ SimpleHistory(FirstBlock, file.data.lastScannedBlock))
    => file.data.ordersByKey
         = scanRange(EmptyOrders, FirstBlock, file.data.lastScannedBlock)

(* K1 made in one block and cancelled in a later one, scanned in chunks   *)
(* of one block by a pass that resumed from a persisted snapshot          *)
C37_Witness ==
  /\ Synced
  /\ cfg.step = 1
  /\ file.data.lastScannedBlock >= 2
  /\ SimpleHistory(FirstBlock, file.data.lastScannedBlock)
  /\ "K1" \in DOMAIN file.data.ordersByKey
  /\ file.data.ordersByKey["K1"].status = "cancelled"
  /\ file.data.ordersByKey["K1"].lastUpdateBlock > file.data.ordersByKey["K1"].firstSeenBlock
  /\ sync[1].pc = "idle"
  /\ trace[1] # << >>
  /\ trace[1][1].lsb >= 1

----------------------------------------------------------------------------
(* A configured allow-list with malformed entries (parseAllowlist) *)

(* the collection is spelled, in any case, by an entry of the string *)
AppearsIn(raw, collectionAddr) ==
  \E i \in DOMAIN raw.value : normAddr(raw.value[i]) = normAddr(collectionAddr)

(* C38: with COLLECTION_ALLOWLIST set to a non-empty string, checkRisk    *)
(* does not return for a selection holding an order whose collection does *)
(* not appear in the string, and getActiveSellOrders returns no such      *)
(* order, well-formed entries or not                                      *)
C38_ListedOnly ==
  /\ (rk.pc = "returned" /\ rk.COLLECTION_ALLOWLIST.given
        /\ rk.COLLECTION_ALLOWLIST.value # << >>)
       => \A i \in DOMAIN rk.orders :
            AppearsIn(rk.COLLECTION_ALLOWLIST, rk.orders[i].collectionAddr)
  /\ (qr.op = "getActiveSellOrders" /\ qr.COLLECTION_ALLOWLIST.given
        /\ qr.COLLECTION_ALLOWLIST.value # << >>)
       => \A i \in DOMAIN qr.orders :
            AppearsIn(qr.COLLECTION_ALLOWLIST, qr.orders[i].order.nft.collectionAddr)

----------------------------------------------------------------------------
(* Termination of the chunk loop (orderbook-indexer.ts, 151-157) *)

(* the scanRange calls the pass of p has made so far *)
Iterations(p) == Len(SelectSeq(trace[p], LAMBDA c : c.op = "scan"))

(* ceil((head - start + 1) / chunkSize) for the pass of p, where a chunk  *)
(* size is positive                                                       *)
IterationsBounded ==
  \A p \in Procs :
    (trace[p] # << >> /\ cfg.step > 0)
      => Iterations(p)
           <= (trace[p][1].to - trace[p][1].from + 1 + cfg.step - 1) \div cfg.step

(* an iteration leaves lastScannedBlock above where it found it *)
StrictAdvance ==
  \A p \in Procs :
    (sync[p].pc = "scan" /\ sync'[p].pc = "write")
      => sync'[p].state.lastScannedBlock > sync[p].state.lastScannedBlock

(* C39: for every head and every INDEXER_BATCH_SIZE the chunk loop makes  *)
(* at most ceil((head - start + 1) / chunkSize) iterations, each of them  *)
(* advancing lastScannedBlock strictly, and the pass returns, every RPC   *)
(* call returning                                                         *)
C39_PassTerminates ==
  /\ [](IterationsBounded)
  /\ [][StrictAdvance]_vars
  /\ \A p \in Procs : (sync[p].pc # "idle") ~> (sync[p].pc = "idle")

----------------------------------------------------------------------------
(* The block numbers of an entry (orderbook-indexer.ts, 217-268) *)

(* in the blocks lo..hi no Cancel or Match of a sell order lies before    *)
(* the first Make of its key                                              *)
EndsAfterMake(lo, hi) ==
  \A k \in Keys :
    \A i \in DOMAIN MakesOf(k, lo, hi) :
      /\ \A j \in DOMAIN CancelsOf(k, lo, hi) :
           CancelsOf(k, lo, hi)[j].blk >= MakesOf(k, lo, hi)[i].blk
      /\ \A j \in DOMAIN MatchesOf(k, lo, hi) :
           MatchesOf(k, lo, hi)[j].blk >= MakesOf(k, lo, hi)[i].blk

(* firstSeenBlock <= lastUpdateBlock <= lastScannedBlock in every entry   *)
(* of the persisted snapshot                                              *)
BlocksInOrder ==
  (Synced /\ EndsAfterMake(FirstBlock, file.data.lastScannedBlock))
    => \A k \in DOMAIN file.data.ordersByKey :
         /\ file.data.ordersByKey[k].firstSeenBlock <= file.data.ordersByKey[k].lastUpdateBlock
         /\ file.data.ordersByKey[k].lastUpdateBlock <= file.data.lastScannedBlock

(* from one completed write to the next an entry keeps its firstSeenBlock *)
FirstSeenKept ==
  (committed.kind = "json" /\ committed'.kind = "json" /\ sameDeployment(committed.data))
    => \A k \in (DOMAIN committed.data.ordersByKey) \cap (DOMAIN committed'.data.ordersByKey) :
         committed'.data.ordersByKey[k].firstSeenBlock
           = committed.data.ordersByKey[k].firstSeenBlock

(* C40: on histories in which every Cancel or Match of a key lies at a    *)
(* block not before the key's Make, every entry of every persisted        *)
(* snapshot has firstSeenBlock <= lastUpdateBlock <= lastScannedBlock,    *)
(* and the firstSeenBlock of an entry never changes once it is created    *)
C40_EntryBlocks == [](BlocksInOrder) /\ [][FirstSeenKept]_vars

(* K1 made, made again in a later block and cancelled: the entry keeps    *)
(* the block of the first Make and carries the block of the Cancel        *)
C40_Witness ==
  /\ Synced
  /\ EndsAfterMake(FirstBlock, file.data.lastScannedBlock)
  /\ Len(MakesOf("K1", FirstBlock, file.data.lastScannedBlock)) = 2
  /\ "K1" \in DOMAIN file.data.ordersByKey
  /\ file.data.ordersByKey["K1"].status = "cancelled"
  /\ file.data.ordersByKey["K1"].firstSeenBlock
       = MakesOf("K1", FirstBlock, file.data.lastScannedBlock)[1].blk
  /\ file.data.ordersByKey["K1"].firstSeenBlock < file.data.ordersByKey["K1"].lastUpdateBlock

====
